---- MODULE Spec2Model ----
(***************************************************************************)
(* A model of the ResumeOptimizer backend: the suggestion engine           *)
(* (services/analysis.py), the heuristic extraction pipeline               *)
(* (services/parser.py) and the two renderers (services/latex_renderer.py, *)
(* services/pdf_renderer.py).                                              *)
(*                                                                         *)
(* Text is a sequence of one-character strings.  A JSON value is a record  *)
(* [t, s, n]: t is its JSON type ("missing" when the key is absent from    *)
(* the enclosing object), s its string and n its number.                   *)
(***************************************************************************)
EXTENDS Integers, Sequences, FiniteSets, TLC

VARIABLES
    client,     \* AnalysisService.client is set (an API key was configured)
    aop,        \* the analysis operation in progress: "none", "analyze", "edit"
    apc,        \* its position: "idle", "waiting" (oracle call in flight), "returned", "raised"
    acalls,     \* oracle invocations made by the operation in progress
    areply,     \* what the oracle call produced
    aresult,    \* the AnalysisResult returned by analyze_resume
    curText,    \* custom_edit's current_text argument
    eresult,    \* the dict returned by custom_edit
    ainput,     \* the Resume the caller handed to analyze_resume, as it was at the call
    aresume,    \* that Resume object as the operation leaves it
    pkind,      \* the parser operation in progress: "none", "pdf", "docx"
    ppc,        \* its position: "idle", "returned", "raised"
    pinput,     \* what the extractor yields for the uploaded bytes
    presult,    \* the (Resume, warnings) pair the parser returned
    rkind,      \* the renderer in progress: "none", "latex", "pdf"
    rinput,     \* the Resume handed to the renderer
    latex,      \* the LaTeX source LaTeXRenderer.render returned
    story,      \* the flowables PDFRenderer.render_pdf handed to the layout engine
    cpc,        \* render_and_compile's position: "idle", "entered", "written", "done"
    tmp,        \* the temporary directory of compile_to_pdf: [exists, files]
    clog,       \* what each pdflatex invocation of the call did, in order
    cresult,    \* what compile_to_pdf gave: [raised, pdf]
    response,   \* the answer of the /render endpoint
    breq,       \* the request a router received
    bcore,      \* the core operations the router invoked for it, in order
    bresp,      \* the router's answer: its HTTP status
    calls,      \* per concurrent caller: the call it has in progress and its locals
    fs,         \* the directories under the system's temporary directory
    shared      \* the attributes of the module-level parser and renderer instances

analysisVars == <<client, aop, apc, acalls, areply, aresult, curText, eresult, ainput, aresume>>

parserVars == <<pkind, ppc, pinput, presult>>

renderVars == <<rkind, rinput, latex, story>>

compileVars == <<cpc, tmp, clog, cresult, response>>

boundaryVars == <<breq, bcore, bresp>>

concVars == <<calls, fs, shared>>

vars == <<client, aop, apc, acalls, areply, aresult, curText, eresult, ainput, aresume,
          pkind, ppc, pinput, presult, rkind, rinput, latex, story,
          cpc, tmp, clog, cresult, response, breq, bcore, bresp, calls, fs, shared>>

(***************************************************************************)
(* Bounds of the model.                                                    *)
(***************************************************************************)
\* longest list of suggestion entries in an oracle response
MaxSuggestions == 12
\* longest oracle error message beyond the truncation limit
MsgOver == 1

(***************************************************************************)
(* Program constants.                                                      *)
(***************************************************************************)
\* suggestions[:10]
SuggestionCap == 10
\* str(e)[:100]
MsgLimit == 100
\* data.get("score", 50)
DefaultScore == 50

(***************************************************************************)
(* Helpers on sequences.                                                   *)
(***************************************************************************)
Min(a, b) == IF a < b THEN a ELSE b

\* Python's seq[:n]
Take(seq, n) == SubSeq(seq, 1, Min(n, Len(seq)))

\* Python's seq[-n:]
TakeLast(seq, n) == SubSeq(seq, Len(seq) - Min(n, Len(seq)) + 1, Len(seq))

\* s starts with the prefix p
StartsWith(s, p) == Len(s) >= Len(p) /\ SubSeq(s, 1, Len(p)) = p

\* a message of n characters
MsgOfLen(n) == [i \in 1..n |-> "x"]

(***************************************************************************)
(* JSON values.                                                            *)
(***************************************************************************)
Missing == [t |-> "missing", s |-> "", n |-> 0]
Null    == [t |-> "null", s |-> "", n |-> 0]
Str(x)  == [t |-> "str", s |-> x, n |-> 0]
Num(k)  == [t |-> "int", s |-> "", n |-> k]
\* a JSON number with a fractional part
Frac    == [t |-> "float", s |-> "", n |-> 0]
\* the i-th of a family of distinct strings
StrN(x, i) == [t |-> "str", s |-> x, n |-> i]

\* dict.get(key, default): the default only when the key is absent
Get(obj, key, default) == IF obj[key].t = "missing" THEN default ELSE obj[key]

\* str.lower() on the strings the model uses
LowerStr(x) ==
    CASE x = "CRITICAL" -> "critical"
      [] x = "Enhancement" -> "enhancement"
      [] x = "Rewrite" -> "rewrite"
      [] x = "FORMAT" -> "format"
      [] x = "Content" -> "content"
      [] x = "Formatting" -> "formatting"
      [] OTHER -> x

(***************************************************************************)
(* services/analysis.py: normalization of one oracle suggestion.           *)
(* An entry of data["suggestions"] is a record: obj says whether it is a   *)
(* JSON object; the other fields are the JSON values under its keys.       *)
(***************************************************************************)
SuggestionTypes == {"critical", "enhancement"}

\* models/analysis.py: SuggestionAction, "remove" included
SuggestionActions == {"rewrite", "add", "delete", "remove", "format"}

SuggestionCategories == {"content", "formatting"}

\* s.get(key, default).lower(): an AttributeError when the value is no string
LowerOf(e, key, default) ==
    LET raw == Get(e, key, Str(default))
    IN  IF raw.t = "str" THEN [ok |-> TRUE, v |-> LowerStr(raw.s)]
        ELSE [ok |-> FALSE, v |-> ""]

NormType(e) ==
    LET l == LowerOf(e, "type", "enhancement")
    IN  IF l.ok /\ l.v \notin SuggestionTypes THEN [l EXCEPT !.v = "enhancement"] ELSE l

NormAction(e) ==
    LET l == LowerOf(e, "action", "rewrite")
    IN  IF l.ok /\ l.v \notin SuggestionActions THEN [l EXCEPT !.v = "rewrite"] ELSE l

NormCategory(e, action) ==
    LET l == LowerOf(e, "category", "content")
    IN  IF l.ok /\ l.v \notin SuggestionCategories
        THEN [l EXCEPT !.v = IF action = "format" THEN "formatting" ELSE "content"]
        ELSE l

\* pydantic: Optional[str]
OptStrValid(v) == v.t \in {"missing", "null", "str"}

\* Suggestion(**s): title and description are required strings
SuggestionValid(e) ==
    /\ e.title.t = "str"
    /\ e.description.t = "str"
    /\ OptStrValid(e.section_id)

\* One pass of the loop body: [ok |-> FALSE] when the entry is skipped.
NormalizeSuggestion(e) ==
    LET ty == NormType(e)
        ac == NormAction(e)
        ca == NormCategory(e, ac.v)
        none == [ok |-> FALSE, type |-> "", action |-> "", category |-> "",
                 title |-> Null, section_id |-> Null]
    IN  IF ~e.obj THEN none                       \* s.get on a non-dict
        ELSE IF ~ty.ok \/ ~ac.ok \/ ~ca.ok THEN none
        ELSE IF ~SuggestionValid(e) THEN none
        ELSE [ok |-> TRUE, type |-> ty.v, action |-> ac.v, category |-> ca.v,
              title |-> e.title,
              section_id |-> IF e.section_id.t = "missing" THEN Null ELSE e.section_id]

\* for s in data.get("suggestions", []): ... suggestions.append(Suggestion(**s))
RECURSIVE NormalizeAll(_)
NormalizeAll(entries) ==
    IF entries = <<>> THEN <<>>
    ELSE LET r == NormalizeSuggestion(Head(entries))
         IN  (IF r.ok THEN <<r>> ELSE <<>>) \o NormalizeAll(Tail(entries))

(***************************************************************************)
(* services/analysis.py: normalization of one keyword.                     *)
(***************************************************************************)
KeywordCategories == {"skill", "tool", "certification", "soft_skill", "other"}

NormalizeKeyword(k) ==
    LET l == LowerOf(k, "category", "other")
        none == [ok |-> FALSE, term |-> Null, category |-> ""]
    IN  IF ~k.obj \/ ~l.ok THEN none
        ELSE IF k.term.t # "str" \/ k.found.t # "bool" THEN none
        ELSE [ok |-> TRUE, term |-> k.term,
              category |-> IF l.v \in KeywordCategories THEN l.v ELSE "other"]

\* a keyword loop that gives up all keywords at the first malformed one
NormalizeKeywordsOrNone(entries) ==
    IF \E i \in 1..Len(entries) : ~NormalizeKeyword(entries[i]).ok THEN <<>>
    ELSE [i \in 1..Len(entries) |-> NormalizeKeyword(entries[i])]

\* for k in data.get("keywords", []): ... keywords.append(KeywordMatch(**k))
RECURSIVE NormalizeKeywords(_)
NormalizeKeywords(entries) ==
    IF entries = <<>> THEN <<>>
    ELSE LET r == NormalizeKeyword(Head(entries))
         IN  (IF r.ok THEN <<r>> ELSE <<>>) \o NormalizeKeywords(Tail(entries))

(***************************************************************************)
(* services/analysis.py: analyze_resume from the oracle's reply on.        *)
(* A reply is [status, errLen, body]: status "error" when the call raised  *)
(* (errLen is the length of str(e)), else body is the message content:     *)
(* shape "none" (no content), "notjson", "nonobject" (JSON, but no object) *)
(* or "object" with the JSON values under the keys the code reads.         *)
(***************************************************************************)
\* list(...) of the JSON value under "suggestions" / "keywords": a string or
\* an object iterates (every element is then skipped), null or a number does not
Iterable(l) == l.t \in {"missing", "list"}

ItemsOf(l) == IF l.t = "list" THEN l.items ELSE <<>>

\* pydantic: score: int
ScoreValid(v) == v.t = "int"

\* pydantic: match_score: Optional[int], read with data.get("match_score")
MatchValid(v) == v.t \in {"missing", "null", "int"}

\* pydantic: summary: str
SummaryValid(v) == v.t = "str"

\* the text of a JSON string of the model: n characters
TextOf(v) == [i \in 1..v.n |-> "s"]

AnalysisFailedPrefix ==
    <<"A","n","a","l","y","s","i","s"," ","f","a","i","l","e","d",":"," ">>

\* the except branch: AnalysisResult(score=0, summary=f"Analysis failed: {str(e)[:100]}", suggestions=[])
FailureResult(msg) ==
    [score |-> 0, match_score |-> Null,
     summary |-> AnalysisFailedPrefix \o Take(msg, MsgLimit),
     suggestions |-> <<>>, keywords |-> <<>>]

\* a cap that keeps the last entries instead of the first
CapSuggestionsLast(suggestions) == TakeLast(suggestions, SuggestionCap)

\* suggestions[:10]
CapSuggestions(suggestions) == Take(suggestions, SuggestionCap)

\* the try block after the oracle call has returned `body`
AssembleResult(body) ==
    IF body.shape = "none" THEN FailureResult(MsgOfLen(4))       \* len(None)
    ELSE IF body.shape = "notjson" THEN FailureResult(MsgOfLen(5)) \* json.loads
    ELSE IF body.shape = "nonobject" THEN FailureResult(MsgOfLen(6)) \* data.get
    ELSE IF ~Iterable(body.suggestions) THEN FailureResult(MsgOfLen(7))
    ELSE IF ~Iterable(body.keywords) THEN FailureResult(MsgOfLen(7))
    ELSE LET score == Get(body, "score", Num(DefaultScore))
             summary == Get(body, "summary", StrN("Analysis complete.", 18))
         IN  IF ~ScoreValid(score) \/ ~MatchValid(body.match_score) \/ ~SummaryValid(summary)
             THEN FailureResult(MsgOfLen(MsgLimit + 1))         \* ValidationError
             ELSE [score |-> score.n,
                   match_score |-> IF body.match_score.t = "int" THEN body.match_score ELSE Null,
                   summary |-> TextOf(summary),
                   suggestions |-> CapSuggestions(NormalizeAll(ItemsOf(body.suggestions))),
                   keywords |-> NormalizeKeywords(ItemsOf(body.keywords))]

AnalyzeResult(reply) ==
    IF reply.status = "error" THEN FailureResult(MsgOfLen(reply.errLen))
    ELSE AssembleResult(reply.body)

(***************************************************************************)
(* services/analysis.py: custom_edit from the oracle's reply on.  The body *)
(* of the reply holds suggested_text and explanation.                      *)
(***************************************************************************)
ErrorPrefix == <<"E","r","r","o","r",":"," ">>

\* the except branch
EditFallback(text, msg) ==
    [has_text |-> TRUE, suggested_text |-> text,
     explanation |-> ErrorPrefix \o Take(msg, MsgLimit)]

EditResult(text, reply) ==
    IF reply.status = "error" THEN EditFallback(text, MsgOfLen(reply.errLen))
    ELSE IF reply.body.shape = "none" THEN EditFallback(text, MsgOfLen(4))
    ELSE IF reply.body.shape = "notjson" THEN EditFallback(text, MsgOfLen(5))
    ELSE IF reply.body.shape = "nonobject" THEN EditFallback(text, MsgOfLen(6))
    ELSE LET st == reply.body.suggested_text
             ex == Get(reply.body, "explanation", StrN("Edit applied.", 13))
         IN  [has_text |-> st.t \in {"missing", "str"},
             suggested_text |-> IF st.t = "missing" THEN text
                               ELSE IF st.t = "str" THEN TextOf(st) ELSE <<>>,
             explanation |-> IF ex.t = "str" THEN TextOf(ex) ELSE <<>>]

(***************************************************************************)
(* The oracle's replies the model draws from.                              *)
(***************************************************************************)
NoList == [t |-> "missing", items |-> <<>>]
NullList == [t |-> "null", items |-> <<>>]
NumberList == [t |-> "int", items |-> <<>>]
ListOf(items) == [t |-> "list", items |-> items]

EmptyBody ==
    [shape |-> "object", score |-> Missing, match_score |-> Missing, summary |-> Missing,
     suggestions |-> NoList, keywords |-> NoList,
     suggested_text |-> Missing, explanation |-> Missing]

NoReply == [status |-> "none", errLen |-> 0, body |-> EmptyBody]

\* a well-formed suggestion object, the i-th of its response
GoodEntry(i) ==
    [obj |-> TRUE, type |-> Str("critical"), action |-> Str("rewrite"),
     category |-> Str("content"), title |-> StrN("t", i), description |-> Str("d"),
     section_id |-> Missing]

\* a suggestion object without its required description
BadEntry(i) == [GoodEntry(i) EXCEPT !.description = Missing]

\* an entry that is no JSON object (a string, a number, null)
NonObject(i) == [GoodEntry(i) EXCEPT !.obj = FALSE]

\* most entries of a long list that are malformed
MaxBad == 2

LongLists ==
    { [i \in 1..n |-> IF i \in bad THEN BadEntry(i) ELSE GoodEntry(i)] :
        n \in 0..MaxSuggestions, bad \in {b \in SUBSET (1..MaxSuggestions) : Cardinality(b) <= MaxBad} }

TypeValues == {Missing, Null, Str("critical"), Str("CRITICAL"), Str("urgent")}
ActionValues == {Missing, Num(1), Str("add"), Str("delete"), Str("remove"),
                 Str("FORMAT"), Str("merge")}
CategoryValues == {Missing, Null, Str("formatting"), Str("Content"), Str("style")}
TitleValues == {StrN("t", 2), Missing, Null}

VariedEntries ==
    { [obj |-> TRUE, type |-> ty, action |-> ac, category |-> ca, title |-> ti,
       description |-> Str("d"), section_id |-> Missing] :
        ty \in TypeValues, ac \in ActionValues, ca \in CategoryValues, ti \in TitleValues }
    \cup {NonObject(2), [GoodEntry(2) EXCEPT !.section_id = Num(7)],
          [GoodEntry(2) EXCEPT !.section_id = Str("sec")],
          [GoodEntry(2) EXCEPT !.section_id = StrN("id", 100)]}

\* one varied entry, alone or between two well-formed ones
ShortLists ==
    { <<e>> : e \in VariedEntries } \cup { <<GoodEntry(1), e, GoodEntry(3)>> : e \in VariedEntries }

GoodKeyword ==
    [obj |-> TRUE, term |-> Str("Python"), category |-> Str("skill"), found |-> [t |-> "bool", s |-> "", n |-> 1]]

KeywordLists ==
    { NoList, NullList, ListOf(<<GoodKeyword>>),
      ListOf(<<[GoodKeyword EXCEPT !.category = Str("language")], [GoodKeyword EXCEPT !.found = Missing]>>),
      ListOf(<<[GoodKeyword EXCEPT !.obj = FALSE], GoodKeyword>>) }

ScoreValues == {Missing, Null, Frac, Str("high"), Num(0), Num(85), Num(150), Num(0 - 5)}
MatchValues == {Missing, Null, Str("n/a"), Num(70), Num(101)}
SummaryValues == {Missing, Null, StrN("s", 0), StrN("s", 3)}

ErrLens == {0, 1, MsgLimit, MsgLimit + MsgOver}

ErrorReplies == { [status |-> "error", errLen |-> n, body |-> EmptyBody] : n \in ErrLens }

ShapeReplies ==
    { [status |-> "ok", errLen |-> 0, body |-> [EmptyBody EXCEPT !.shape = sh]] :
        sh \in {"none", "notjson", "nonobject"} }

ListReplies ==
    { [status |-> "ok", errLen |-> 0,
       body |-> [EmptyBody EXCEPT !.score = Num(85), !.summary = StrN("s", 3),
                                  !.suggestions = ListOf(l)]] :
        l \in LongLists \cup ShortLists }

FieldReplies ==
    { [status |-> "ok", errLen |-> 0,
       body |-> [EmptyBody EXCEPT !.score = sc, !.match_score = ma, !.summary = su,
                                  !.suggestions = sg, !.keywords = kw]] :
        sc \in ScoreValues, ma \in MatchValues, su \in SummaryValues,
        sg \in {NoList, NullList, NumberList, ListOf(<<GoodEntry(1), BadEntry(2), GoodEntry(3)>>)},
        kw \in KeywordLists }

AnalyzeReplies == ErrorReplies \cup ShapeReplies \cup ListReplies \cup FieldReplies

EditReplies ==
    ErrorReplies \cup ShapeReplies \cup
    { [status |-> "ok", errLen |-> 0,
       body |-> [EmptyBody EXCEPT !.suggested_text = st, !.explanation = ex]] :
        st \in {Missing, Null, StrN("s", 0), StrN("s", 2)},
        ex \in {Missing, Null, StrN("e", 3)} }

EditTexts == {<<>>, <<"a">>, <<"a", "*", "b">>}

NoResult == [score |-> 0, match_score |-> Null, summary |-> <<>>, suggestions |-> <<>>,
             keywords |-> <<>>]

NoEdit == [has_text |-> FALSE, suggested_text |-> <<>>, explanation |-> <<>>]

\* the parser's result variable before any call
NoParse ==
    [raised |-> FALSE, warnings |-> <<>>,
     resume |-> [id |-> 0, sections |-> <<>>, version |-> 0,
                 metadata |-> [name |-> <<>>, email |-> [some |-> FALSE, v |-> <<>>],
                               phone |-> [some |-> FALSE, v |-> <<>>],
                               linkedin |-> [some |-> FALSE, v |-> <<>>],
                               github |-> [some |-> FALSE, v |-> <<>>],
                               location |-> [some |-> FALSE, v |-> <<>>],
                               website |-> [some |-> FALSE, v |-> <<>>]]]]

\* no analysis operation is in progress
AnalysisIdle ==
    /\ aop = "none" /\ apc = "idle" /\ acalls = 0
    /\ areply = NoReply /\ aresult = NoResult /\ eresult = NoEdit /\ curText = <<>>
    /\ ainput = NoParse.resume /\ aresume = NoParse.resume

\* the parser's input variable before any call
NoInput == [readable |-> TRUE, blocks |-> <<>>, fault |-> "none"]

\* no parser operation is in progress
ParserIdle ==
    /\ pkind = "none" /\ ppc = "idle"
    /\ pinput = NoInput /\ presult = NoParse

\* no renderer is in progress
RenderIdle ==
    /\ rkind = "none" /\ rinput = NoParse.resume
    /\ latex = <<>> /\ story = <<>>

\* no temporary directory
NoTmp == [exists |-> FALSE, files |-> {}]

\* compile_to_pdf's result variable before any call
NoCompile == [raised |-> FALSE, pdf |-> [some |-> FALSE, v |-> <<>>]]

\* the /render endpoint's answer before any request
NoResponse == [status |-> 0, latex |-> <<>>, pdf_base64 |-> <<>>]

\* no render_and_compile is in progress
CompileIdle ==
    /\ cpc = "idle" /\ tmp = NoTmp /\ clog = <<>>
    /\ cresult = NoCompile /\ response = NoResponse

\* the routers' request variable before any request
NoRequest == [kind |-> "none", filename |-> <<>>, job_description |-> <<>>]

\* no request is at a router
BoundaryIdle == breq = NoRequest /\ bcore = <<>> /\ bresp = 0

\* the callers that can be inside the endpoints at the same time
Callers == {"c1", "c2"}

\* the names tempfile can give a directory
DirNames == {"tmpa", "tmpb", "tmpc"}

\* a directory that does not exist
NoDir == [exists |-> FALSE, tex |-> [some |-> FALSE, v |-> <<>>],
          pdf |-> [some |-> FALSE, v |-> <<>>]]

\* a caller with no call in progress
NoCall ==
    [pc |-> "idle", kind |-> "none", doc |-> NoInput, resume |-> NoParse.resume,
     env |-> "none", parsed |-> NoParse, markup |-> <<>>, dir |-> "none", runs |-> 0,
     raised |-> FALSE, pdf |-> [some |-> FALSE, v |-> <<>>]]

\* LaTeXRenderer.__init__ sets template_dir; ResumeParser has no attribute
SharedInstances == [renderer |-> [template_dir |-> "app/templates"]]

\* no caller is inside an endpoint
ConcIdle ==
    /\ calls = [c \in Callers |-> NoCall]
    /\ fs = [d \in DirNames |-> NoDir]
    /\ shared = SharedInstances

(***************************************************************************)
(* The suggestion engine's operations.  The oracle call is the one point   *)
(* where an operation waits; the reply is the oracle's choice.             *)
(***************************************************************************)
\* the Resume trees handed to analyze_resume
AnalysisResumes ==
    { [NoParse.resume EXCEPT !.id = 1, !.version = v, !.sections = sections] :
        v \in {1, 2},
        sections \in
            { <<>>,
              <<[id |-> 100, type |-> "summary", title |-> <<"T1">>, order |-> 1,
                 items |-> <<[id |-> 10, order |-> 0, text |-> <<"a">>]>>],
                [id |-> 200, type |-> "custom", title |-> <<"T2">>, order |-> 0,
                 items |-> <<>>]>> } }

\* a serialization that renumbers the version of the tree it reads
DumpedResumeRenumbered(resume) == [resume EXCEPT !.version = @ + 1]

\* the Resume object after resume.model_dump_json(): the serialization reads
\* the tree and assigns nothing in it
DumpedResume(resume) == resume

\* analyze_resume up to the oracle call
AnalyzeCall ==
    /\ aop = "none"
    /\ aop' = "analyze"
    /\ areply' = NoReply
    /\ aresult' = NoResult
    /\ \E resume \in AnalysisResumes :
        /\ ainput' = resume
        /\ aresume' = IF client THEN DumpedResume(resume) ELSE resume
    /\ IF client
       THEN apc' = "waiting" /\ acalls' = 1
       ELSE apc' = "raised" /\ acalls' = 0      \* raise Exception("AI Client not initialized")
    /\ UNCHANGED <<client, curText, eresult>>
    /\ UNCHANGED <<parserVars, renderVars, compileVars, boundaryVars, concVars>>

\* the oracle call ends and analyze_resume runs to its return
AnalyzeReturn ==
    /\ aop = "analyze" /\ apc = "waiting"
    /\ \E r \in AnalyzeReplies :
        /\ areply' = r
        /\ aresult' = AnalyzeResult(r)
    /\ apc' = "returned"
    /\ UNCHANGED <<client, aop, acalls, curText, eresult, ainput, aresume>>
    /\ UNCHANGED <<parserVars, renderVars, compileVars, boundaryVars, concVars>>

\* custom_edit up to the oracle call
EditCall ==
    /\ aop = "none"
    /\ aop' = "edit"
    /\ areply' = NoReply
    /\ eresult' = NoEdit
    /\ \E t \in EditTexts : curText' = t
    /\ IF client
       THEN apc' = "waiting" /\ acalls' = 1
       ELSE apc' = "raised" /\ acalls' = 0      \* raise Exception("AI Client not initialized")
    /\ UNCHANGED <<client, aresult, ainput, aresume>>
    /\ UNCHANGED <<parserVars, renderVars, compileVars, boundaryVars, concVars>>

\* the oracle call ends and custom_edit runs to its return
EditReturn ==
    /\ aop = "edit" /\ apc = "waiting"
    /\ \E r \in EditReplies :
        /\ areply' = r
        /\ eresult' = EditResult(curText, r)
    /\ apc' = "returned"
    /\ UNCHANGED <<client, aop, acalls, curText, aresult, ainput, aresume>>
    /\ UNCHANGED <<parserVars, renderVars, compileVars, boundaryVars, concVars>>

\* the request is over; the next one gets a service built from the same environment
AnalysisDone ==
    /\ aop # "none" /\ apc \in {"returned", "raised"}
    /\ aop' = "none" /\ apc' = "idle" /\ acalls' = 0
    /\ areply' = NoReply /\ aresult' = NoResult /\ eresult' = NoEdit /\ curText' = <<>>
    /\ ainput' = NoParse.resume /\ aresume' = NoParse.resume
    /\ UNCHANGED client
    /\ UNCHANGED <<parserVars, renderVars, compileVars, boundaryVars, concVars>>

AnalysisInit ==
    /\ client \in BOOLEAN
    /\ AnalysisIdle
    /\ ParserIdle
    /\ RenderIdle
    /\ CompileIdle
    /\ BoundaryIdle /\ ConcIdle

AnalysisNext == AnalyzeCall \/ AnalyzeReturn \/ EditCall \/ EditReturn \/ AnalysisDone

SpecAnalysis == AnalysisInit /\ [][AnalysisNext]_vars

(***************************************************************************)
(* Claims about the suggestion engine.                                     *)
(***************************************************************************)
\* the oracle call failed, or its content is not parseable JSON
OracleFailed(reply) ==
    \/ reply.status = "error"
    \/ reply.status = "ok" /\ reply.body.shape \in {"none", "notjson"}

\* the result the claims call the failure result
IsFailureResult(r) == r.score = 0 /\ r.suggestions = <<>> /\ r.summary # <<>>

\* C1: analyze_resume never raises; with no client configured, a failed oracle
\* call or an unparseable response it returns an AnalysisResult with score 0,
\* no suggestions and a non-empty summary.
C1_AnalyzeNeverRaises ==
    aop = "analyze" =>
        /\ apc # "raised"
        /\ (apc = "returned" /\ OracleFailed(areply)) => IsFailureResult(aresult)

\* the part of C1 the code keeps: once the oracle has been called, every failure
\* of the call or of the parse gives the failure result
C1_FailureAfterCall ==
    (aop = "analyze" /\ apc = "returned" /\ OracleFailed(areply)) => IsFailureResult(aresult)

\* the indices of the entries that survive normalization and validation
SurvivingIdx(items) == {i \in 1..Len(items) : NormalizeSuggestion(items[i]).ok}

\* the number of survivors before index i
RankOf(items, i) == Cardinality({j \in SurvivingIdx(items) : j < i})

\* out holds the first min(10, k) of the k survivors of items, in their order
FirstTenInOrder(items, out) ==
    /\ Len(out) = Min(10, Cardinality(SurvivingIdx(items)))
    /\ \A p \in 1..Len(out) :
        \E i \in SurvivingIdx(items) :
            RankOf(items, i) = p - 1 /\ out[p].title = items[i].title

\* a result is assembled from the response: it is a JSON object, its suggestions
\* and keywords iterate, and score, match_score and summary pass validation
Assembles(reply) ==
    /\ reply.status = "ok" /\ reply.body.shape = "object"
    /\ Iterable(reply.body.suggestions) /\ Iterable(reply.body.keywords)
    /\ ScoreValid(Get(reply.body, "score", Num(50)))
    /\ MatchValid(reply.body.match_score)
    /\ SummaryValid(Get(reply.body, "summary", Str("Analysis complete.")))

\* C2 as stated: for every oracle response the result holds the first
\* min(10, k) of the k surviving suggestions, in the oracle's order.
C2_FirstTenOfEveryResponse ==
    (aop = "analyze" /\ apc = "returned" /\ areply.status = "ok"
        /\ areply.body.shape = "object") =>
        FirstTenInOrder(ItemsOf(areply.body.suggestions), aresult.suggestions)

\* C2 as amended: for every oracle response from which a result is assembled
\* the result holds the first min(10, k) of the k surviving suggestions, in
\* the oracle's order; for every other response it holds no suggestion.
C2_FirstTenWhenAssembled ==
    (aop = "analyze" /\ apc = "returned") =>
        IF Assembles(areply)
        THEN FirstTenInOrder(ItemsOf(areply.body.suggestions), aresult.suggestions)
        ELSE aresult.suggestions = <<>>

\* a response with more than ten survivors and a skipped entry among the first
\* ten has been capped
C2_Witness ==
    /\ aop = "analyze" /\ apc = "returned" /\ Assembles(areply)
    /\ Cardinality(SurvivingIdx(ItemsOf(areply.body.suggestions))) > 10
    /\ \E i \in 1..10 : i \notin SurvivingIdx(ItemsOf(areply.body.suggestions))
    /\ Len(aresult.suggestions) = 10

\* C3: custom_edit never raises; on a failure (no client, a failed oracle call,
\* an unparseable response) it returns the input text as suggested_text and an
\* explanation that starts with "Error: ".
C3_EditNeverDiscards ==
    aop = "edit" =>
        /\ apc # "raised"
        /\ (apc = "returned" /\ OracleFailed(areply)) =>
              /\ eresult.has_text /\ eresult.suggested_text = curText
              /\ StartsWith(eresult.explanation, <<"E","r","r","o","r",":"," ">>)

\* the part of C3 the code keeps: once the oracle has been called, every failure
\* echoes the input text
C3_EchoAfterCall ==
    (aop = "edit" /\ apc = "returned" /\ OracleFailed(areply)) =>
        /\ eresult.has_text /\ eresult.suggested_text = curText
        /\ StartsWith(eresult.explanation, <<"E","r","r","o","r",":"," ">>)

(***************************************************************************)
(* services/parser.py: text.  A line is a sequence of symbols; a symbol is *)
(* one character, or a word the patterns of the parser treat as a unit (a  *)
(* section header name, a job-title keyword, a year, "Present", ...).      *)
(***************************************************************************)
IsSpace(c) == c = " "

RECURSIVE LStrip(_)
LStrip(s) == IF s # <<>> /\ IsSpace(Head(s)) THEN LStrip(Tail(s)) ELSE s

RECURSIVE RStrip(_)
RStrip(s) == IF s # <<>> /\ IsSpace(s[Len(s)]) THEN RStrip(SubSeq(s, 1, Len(s) - 1)) ELSE s

\* str.strip()
Strip(s) == RStrip(LStrip(s))

\* the first index of s whose symbol is in set, 0 when there is none
FirstIn(s, set) ==
    IF \E i \in 1..Len(s) : s[i] \in set
    THEN CHOOSE i \in 1..Len(s) : s[i] \in set /\ \A j \in 1..(i - 1) : s[j] \notin set
    ELSE 0

\* re.split(r'[...]', s): the pieces between the separators, empty ones included
RECURSIVE SplitOn(_, _)
SplitOn(s, seps) ==
    LET i == FirstIn(s, seps)
    IN  IF i = 0 THEN <<s>>
        ELSE <<SubSeq(s, 1, i - 1)>> \o SplitOn(SubSeq(s, i + 1, Len(s)), seps)

\* [p.strip() for p in pieces if p.strip()]
RECURSIVE StripNonEmpty(_)
StripNonEmpty(pieces) ==
    IF pieces = <<>> THEN <<>>
    ELSE (IF Strip(Head(pieces)) # <<>> THEN <<Strip(Head(pieces))>> ELSE <<>>)
         \o StripNonEmpty(Tail(pieces))

\* sep.join(parts)
RECURSIVE Join(_, _)
Join(parts, sep) ==
    IF parts = <<>> THEN <<>>
    ELSE IF Len(parts) = 1 THEN Head(parts)
    ELSE Head(parts) \o sep \o Join(Tail(parts), sep)

\* an optional value: None, or a value
None == [some |-> FALSE, v |-> <<>>]
Some(x) == [some |-> TRUE, v |-> x]

(***************************************************************************)
(* models/resume.py: the content payload of a SectionItem.  One record     *)
(* shape serves the six variants; `type` is the variant tag.               *)
(***************************************************************************)
EmptyContent ==
    [type |-> "custom", company |-> <<>>, role |-> <<>>, start_date |-> None,
     end_date |-> None, institution |-> <<>>, degree |-> <<>>, name |-> <<>>,
     text |-> <<>>, categories |-> <<>>, bullets |-> <<>>,
     location |-> None, field |-> None, gpa |-> None, description |-> None,
     technologies |-> <<>>, url |-> None, title |-> None, subtitle |-> None,
     date_range |-> None]

\* a bullet whose id is its position instead of a fresh value
BulletIdFromOrder(id, text, order) == [id |-> order, text |-> text, order |-> order]

\* Bullet(id=str(uuid.uuid4()), text=..., order=...)
Bullet(id, text, order) == [id |-> id, text |-> text, order |-> order]

\* SectionItem(id=str(uuid.uuid4()), order=..., content=...)
SectionItem(id, order, content) == [id |-> id, order |-> order, content |-> content]

(***************************************************************************)
(* services/parser.py: _parse_skills_section.  Every parser takes the      *)
(* section's lines and the next fresh id, and returns its items with the   *)
(* next fresh id after them.                                               *)
(***************************************************************************)
\* re.split(r'[,;|]', skills_text)
CategorySeparators == {",", ";", "|"}

\* a separator class without the hyphen
SkillSeparatorsNoHyphen == {",", ";", "|", "BULLET"}

\* re.split(r'[,;|<bullet>\-]', line); "BULLET" is the bullet glyph U+2022
SkillSeparators == {",", ";", "|", "BULLET", "-"}

\* line.split(':', 1)
ColonSplit(line) ==
    LET i == FirstIn(line, {":"})
    IN  [name |-> Strip(SubSeq(line, 1, i - 1)), rest |-> Strip(SubSeq(line, i + 1, Len(line)))]

\* the loop over the lines: st is [categories, all_skills]
RECURSIVE SkillsLoop(_, _)
SkillsLoop(lines, st) ==
    LET Category(name, skills) ==
            IF skills # <<>>
            THEN [st EXCEPT !.categories = Append(@, [name |-> name, skills |-> skills])]
            ELSE st
        Step(line, rest) ==
            IF line = <<>> THEN SkillsLoop(rest, st)
            ELSE IF FirstIn(line, {":"}) # 0
            THEN SkillsLoop(rest, Category(ColonSplit(line).name,
                     StripNonEmpty(SplitOn(ColonSplit(line).rest, CategorySeparators))))
            ELSE SkillsLoop(rest, [st EXCEPT !.all_skills =
                     @ \o StripNonEmpty(SplitOn(line, SkillSeparators))])
    IN  IF lines = <<>> THEN st ELSE Step(Strip(Head(lines)), Tail(lines))

TechnicalSkills == <<"Technical Skills">>

ParseSkillsSection(lines, next) ==
    LET Items(categories) ==
            IF categories # <<>>
            THEN [items |-> <<SectionItem(next, 0,
                                [EmptyContent EXCEPT !.type = "skills",
                                                     !.categories = categories])>>,
                  next |-> next + 1]
            ELSE [items |-> <<>>, next |-> next]
        Categories(st) ==
            IF st.categories = <<>> /\ st.all_skills # <<>>
            THEN <<[name |-> TechnicalSkills, skills |-> st.all_skills]>>
            ELSE st.categories
    IN  Items(Categories(SkillsLoop(lines, [categories |-> <<>>, all_skills |-> <<>>])))

(***************************************************************************)
(* services/parser.py: the patterns of the experience parser.              *)
(***************************************************************************)
\* the bullet glyphs of line 268: U+2022, '-', U+2013, U+25AA, '*', U+25CB
ExperienceGlyphs == {"BULLET", "-", "ENDASH", "SQUARE", "*", "CIRCLE"}

\* the bullet glyphs of line 448: the same without U+25CB
ProjectGlyphs == {"BULLET", "-", "ENDASH", "SQUARE", "*"}

\* \d{4}: a year is one symbol
YearSymbols == {"2020", "2021"}

\* \d: a symbol that is a run of digits
DigitSymbols == {"1", "2", "3"} \cup YearSymbols

\* [-<endash><emdash>to]+ : the separators of a date range
RangeSeparators == {"-", "ENDASH", "EMDASH", "to"}

\* Present|Current under re.IGNORECASE
PresentSymbols == {"Present", "present", "Current"}

\* job_keywords of _looks_like_job_title, as they occur in a line
JobKeywords == {"engineer", "Manager"}

\* the length of the leading run of digit symbols
RECURSIVE DigitRun(_)
DigitRun(s) == IF s # <<>> /\ Head(s) \in DigitSymbols THEN 1 + DigitRun(Tail(s)) ELSE 0

\* re.match(r'^\d+\.', s)
StartsNumbered(s) ==
    LET k == DigitRun(s) IN k > 0 /\ Len(s) > k /\ s[k + 1] = "."

\* re.sub(r'\d+\.\s*', '', s): every digit run followed by a period goes, with
\* the whitespace after it, wherever it stands in s
RECURSIVE RemoveNumbered(_)
RemoveNumbered(s) ==
    IF s = <<>> THEN <<>>
    ELSE IF StartsNumbered(s)
    THEN RemoveNumbered(LStrip(SubSeq(s, DigitRun(s) + 2, Len(s))))
    ELSE IF Head(s) \in DigitSymbols
    THEN SubSeq(s, 1, DigitRun(s)) \o RemoveNumbered(SubSeq(s, DigitRun(s) + 1, Len(s)))
    ELSE <<Head(s)>> \o RemoveNumbered(Tail(s))

\* line 268: the line is a bullet point
IsExperienceBullet(line) == Head(line) \in ExperienceGlyphs \/ StartsNumbered(line)

\* line 269: re.sub(r'^[glyphs]\s*|\d+\.\s*', '', line)
ExperienceBulletText(line) ==
    IF Head(line) \in ExperienceGlyphs THEN RemoveNumbered(LStrip(Tail(line)))
    ELSE RemoveNumbered(line)

\* the index after the symbols of set that start at i
RECURSIVE SkipWhile(_, _, _)
SkipWhile(s, i, set) ==
    IF i <= Len(s) /\ s[i] \in set THEN SkipWhile(s, i + 1, set) ELSE i

\* DATE_RANGE_PATTERN matched at index i: (DATE)\s*[seps]+\s*(DATE|Present|Current)
RangeAt(s, i) ==
    LET a == SkipWhile(s, i + 1, {" "})
        b == SkipWhile(s, a, RangeSeparators)
        c == SkipWhile(s, b, {" "})
    IN  IF s[i] \in YearSymbols /\ b > a /\ c <= Len(s)
           /\ s[c] \in YearSymbols \cup PresentSymbols
        THEN [found |-> TRUE, from |-> i, to |-> c]
        ELSE [found |-> FALSE, from |-> 0, to |-> 0]

\* re.search(DATE_RANGE_PATTERN, s, re.IGNORECASE): the leftmost match
FindRange(s) ==
    IF \E i \in 1..Len(s) : RangeAt(s, i).found
    THEN RangeAt(s, CHOOSE i \in 1..Len(s) :
                        RangeAt(s, i).found /\ \A j \in 1..(i - 1) : ~RangeAt(s, j).found)
    ELSE [found |-> FALSE, from |-> 0, to |-> 0]

\* re.sub(DATE_RANGE_PATTERN, '', s, flags=re.IGNORECASE)
RECURSIVE RemoveRanges(_)
RemoveRanges(s) ==
    LET Cut(m) ==
            IF ~m.found THEN s
            ELSE SubSeq(s, 1, m.from - 1) \o RemoveRanges(SubSeq(s, m.to + 1, Len(s)))
    IN  Cut(FindRange(s))

\* _looks_like_job_title
LooksLikeJobTitle(line) == \E i \in 1..Len(line) : line[i] \in JobKeywords

\* the index of the separator of re.split(r'\s+at\s+|\s+@\s+|\s*[|,]\s*', line, maxsplit=1)
RoleSeparatorAt(line, m) ==
    \/ line[m] \in {"|", ","}
    \/ /\ line[m] \in {"at", "@"}
       /\ m > 1 /\ m < Len(line) /\ line[m - 1] = " " /\ line[m + 1] = " "

\* the index of the first separator of the line, 0 when it has none
FirstRoleSeparator(line) ==
    IF \E m \in 1..Len(line) : RoleSeparatorAt(line, m)
    THEN CHOOSE k \in 1..Len(line) :
             RoleSeparatorAt(line, k) /\ \A j \in 1..(k - 1) : ~RoleSeparatorAt(line, j)
    ELSE 0

\* _create_experience_entry
CreateExperienceEntry(line0, date_match) ==
    LET Entry(line, m, end_match) ==
            [EmptyContent EXCEPT
                !.type = "experience",
                !.role = IF m # 0 THEN Strip(SubSeq(line, 1, m - 1)) ELSE line,
                !.company = IF m # 0 THEN Strip(SubSeq(line, m + 1, Len(line))) ELSE <<>>,
                !.start_date = IF date_match.found THEN <<line0[date_match.from]>> ELSE <<>>,
                !.end_date = IF date_match.found /\ end_match \notin PresentSymbols
                             THEN Some(<<end_match>>) ELSE None]
        Split(line) ==
            Entry(line, FirstRoleSeparator(line),
                  IF date_match.found THEN line0[date_match.to] ELSE "")
    IN  Split(IF date_match.found THEN Strip(RemoveRanges(line0)) ELSE line0)

(***************************************************************************)
(* services/parser.py: _parse_experience_section.  st is the loop's state: *)
(* [items, entry (None before the first entry line), bullets, item_order,  *)
(* next].                                                                  *)
(***************************************************************************)
\* lines 283-290 and 296-302: the open entry becomes an item
CloseEntry(st) ==
    [st EXCEPT !.items = Append(@, SectionItem(st.next, st.item_order,
                                    [st.entry.v EXCEPT !.bullets = st.bullets])),
               !.next = @ + 1]

RECURSIVE ExperienceLoop(_, _)
ExperienceLoop(lines, st) ==
    LET Closed == IF st.entry.some
                  THEN [CloseEntry(st) EXCEPT !.item_order = @ + 1, !.bullets = <<>>]
                  ELSE st
        AddBullet(bullet_text) ==
            IF st.entry.some /\ bullet_text # <<>>
            THEN [st EXCEPT !.bullets = Append(@, Bullet(st.next, bullet_text,
                                                         Len(st.bullets))),
                            !.next = @ + 1]
            ELSE st
        Step(line, rest, date_match) ==
            IF line = <<>> THEN ExperienceLoop(rest, st)
            ELSE IF IsExperienceBullet(line)
            THEN ExperienceLoop(rest, AddBullet(ExperienceBulletText(line)))
            ELSE IF date_match.found \/ LooksLikeJobTitle(line)
            THEN ExperienceLoop(rest,
                     [Closed EXCEPT !.entry = Some(CreateExperienceEntry(line, date_match))])
            ELSE ExperienceLoop(rest, st)
    IN  IF lines = <<>> THEN st
        ELSE Step(Strip(Head(lines)), Tail(lines), FindRange(Strip(Head(lines))))

LoopStart(next) ==
    [items |-> <<>>, entry |-> [some |-> FALSE, v |-> EmptyContent], bullets |-> <<>>,
     item_order |-> 0, next |-> next]

\* lines 295-304: the last entry is saved and the items are returned
LoopEnd(st) ==
    LET Out(done) == [items |-> done.items, next |-> done.next]
    IN  Out(IF st.entry.some THEN CloseEntry(st) ELSE st)

ParseExperienceSection(lines, next) == LoopEnd(ExperienceLoop(lines, LoopStart(next)))

(***************************************************************************)
(* services/parser.py: _parse_projects_section.                            *)
(***************************************************************************)
RECURSIVE ProjectsLoop(_, _)
ProjectsLoop(lines, st) ==
    LET Closed == IF st.entry.some
                  THEN [CloseEntry(st) EXCEPT !.item_order = @ + 1, !.bullets = <<>>]
                  ELSE st
        AddBullet(bullet_text) ==
            IF st.entry.some /\ bullet_text # <<>>
            THEN [st EXCEPT !.bullets = Append(@, Bullet(st.next, bullet_text,
                                                         Len(st.bullets))),
                            !.next = @ + 1]
            ELSE st
        Step(line, rest) ==
            IF line = <<>> THEN ProjectsLoop(rest, st)
            ELSE IF Head(line) \in ProjectGlyphs
            THEN ProjectsLoop(rest, AddBullet(LStrip(Tail(line))))
            ELSE ProjectsLoop(rest,
                     [Closed EXCEPT !.entry =
                         Some([EmptyContent EXCEPT !.type = "project", !.name = line])])
    IN  IF lines = <<>> THEN st ELSE Step(Strip(Head(lines)), Tail(lines))

ParseProjectsSection(lines, next) == LoopEnd(ProjectsLoop(lines, LoopStart(next)))

(***************************************************************************)
(* services/parser.py: the education, summary and generic parsers.         *)
(***************************************************************************)
\* [l.strip() for l in lines if l.strip()]
StrippedLines(lines) == StripNonEmpty(lines)

\* re.search(DATE_PATTERN, s): the first date of s
FirstDate(s) ==
    LET i == FirstIn(s, YearSymbols)
    IN  IF i = 0 THEN <<"Unknown">> ELSE <<s[i]>>

ParseEducationSection(lines, next) ==
    LET Item(current_text) ==
            IF current_text = <<>> THEN [items |-> <<>>, next |-> next]
            ELSE [items |-> <<SectionItem(next, 0,
                      [EmptyContent EXCEPT
                          !.type = "education",
                          !.institution = current_text[1],
                          !.degree = IF Len(current_text) > 1 THEN current_text[2]
                                     ELSE <<"Degree">>,
                          !.end_date = Some(FirstDate(Join(current_text, <<" ">>)))])>>,
                  next |-> next + 1]
    IN  Item(StrippedLines(lines))

ParseSummarySection(lines, next) ==
    LET Item(text) ==
            IF text = <<>> THEN [items |-> <<>>, next |-> next]
            ELSE [items |-> <<SectionItem(next, 0,
                      [EmptyContent EXCEPT !.type = "summary", !.text = text])>>,
                  next |-> next + 1]
    IN  Item(Join(StrippedLines(lines), <<" ">>))

\* for i, line in enumerate(lines): one Bullet per non-empty line, order = i
RECURSIVE GenericBullets(_, _, _)
GenericBullets(lines, i, next) ==
    IF lines = <<>> THEN <<>>
    ELSE IF Strip(Head(lines)) = <<>> THEN GenericBullets(Tail(lines), i + 1, next)
    ELSE <<Bullet(next, Strip(Head(lines)), i)>>
         \o GenericBullets(Tail(lines), i + 1, next + 1)

ParseGenericSection(lines, next) ==
    LET Item(bullets) ==
            IF bullets = <<>> THEN [items |-> <<>>, next |-> next]
            ELSE [items |-> <<SectionItem(next + Len(bullets), 0,
                      [EmptyContent EXCEPT !.type = "custom", !.bullets = bullets])>>,
                  next |-> next + Len(bullets) + 1]
    IN  Item(GenericBullets(lines, 0, next))

(***************************************************************************)
(* services/parser.py: _parse_section and _extract_sections.               *)
(***************************************************************************)
\* SECTION_PATTERNS, in the dict's order: the header names a line may start with
HeaderWords ==
    <<[type |-> "summary", words |-> {"Summary", "Objective"}],
      [type |-> "experience", words |-> {"Experience", "EMPLOYMENT"}],
      [type |-> "education", words |-> {"Education"}],
      [type |-> "skills", words |-> {"Skills"}],
      [type |-> "projects", words |-> {"Projects"}],
      [type |-> "certifications", words |-> {"Certifications"}]>>

\* lines 180-184: the first pattern that matches line.strip(), "none" without one
MatchedType(line) ==
    LET l == Strip(line)
        hit(k) == l # <<>> /\ Head(l) \in HeaderWords[k].words
    IN  IF \E k \in 1..Len(HeaderWords) : hit(k)
        THEN HeaderWords[CHOOSE k \in 1..Len(HeaderWords) :
                             hit(k) /\ \A j \in 1..(k - 1) : ~hit(j)].type
        ELSE "none"

\* the dispatch of _parse_section
ParseItems(section_type, lines, next) ==
    CASE section_type = "experience" -> ParseExperienceSection(lines, next)
      [] section_type = "education" -> ParseEducationSection(lines, next)
      [] section_type = "skills" -> ParseSkillsSection(lines, next)
      [] section_type = "summary" -> ParseSummarySection(lines, next)
      [] section_type = "projects" -> ParseProjectsSection(lines, next)
      [] OTHER -> ParseGenericSection(lines, next)

\* _parse_section without its early return
ParseSectionKeepEmpty(section_type, title, lines, order, next) ==
    LET Section(r) ==
            [some |-> TRUE,
             sections |-> <<[id |-> r.next, type |-> section_type, title |-> title,
                             order |-> order, items |-> r.items]>>,
             next |-> r.next + 1]
    IN  Section(ParseItems(section_type, lines, next))

\* _parse_section: None when the parser found no item
ParseSection(section_type, title, lines, order, next) ==
    LET Section(r) ==
            IF r.items = <<>> THEN [some |-> FALSE, sections |-> <<>>, next |-> r.next]
            ELSE [some |-> TRUE,
                  sections |-> <<[id |-> r.next, type |-> section_type, title |-> title,
                                  order |-> order, items |-> r.items]>>,
                  next |-> r.next + 1]
    IN  Section(ParseItems(section_type, lines, next))

\* lines 188-197 and 207-215: the open section is parsed and kept when it has items
SaveSection(st) ==
    LET Saved(r) ==
            [st EXCEPT !.sections = @ \o r.sections,
                       !.section_order = IF r.some THEN @ + 1 ELSE @,
                       !.next = r.next]
    IN  IF st.type # "none" /\ st.lines # <<>>
        THEN Saved(ParseSection(st.type, st.title, st.lines, st.section_order, st.next))
        ELSE st

\* the loop of _extract_sections: st is [sections, type, title, lines, section_order, next]
RECURSIVE SectionsLoop(_, _)
SectionsLoop(lines, st) ==
    IF lines = <<>> THEN st
    ELSE LET line == Head(lines)
             matched_type == MatchedType(line)
         IN  IF matched_type # "none"
             THEN SectionsLoop(Tail(lines),
                      [SaveSection(st) EXCEPT !.type = matched_type, !.title = Strip(line),
                                              !.lines = <<>>])
             ELSE IF st.type # "none"
             THEN SectionsLoop(Tail(lines), [st EXCEPT !.lines = Append(@, line)])
             ELSE SectionsLoop(Tail(lines), st)

ExtractSections(lines, next) ==
    LET Out(st) == [sections |-> st.sections, next |-> st.next]
    IN  Out(SaveSection(SectionsLoop(lines,
                [sections |-> <<>>, type |-> "none", title |-> <<>>, lines |-> <<>>,
                 section_order |-> 0, next |-> next])))

(***************************************************************************)
(* services/parser.py: _extract_metadata.  An e-mail address, a phone      *)
(* number, a profile link and a "City, ST" place are one symbol each.      *)
(***************************************************************************)
EmailSymbols == {"a@b.io"}
PhoneSymbols == {"555-1234"}
LinkedinSymbols == {"linkedin.com/in/ann"}
GithubSymbols == {"github.com/ann"}
LocationSymbols == {"Austin, TX"}

\* the symbols that are one character long
CharSymbols ==
    {"a", "b", " ", ",", ";", "|", ":", ".", "-", "*", "@", "1", "2", "3",
     "BULLET", "ENDASH", "EMDASH", "SQUARE", "CIRCLE"}

\* len(line) > 2
LongerThanTwo(line) == Len(line) > 2 \/ \E i \in 1..Len(line) : line[i] \notin CharSymbols

\* PHONE_PATTERN finds four digits: a phone number or a year
HasPhone(line) == FirstIn(line, PhoneSymbols \cup YearSymbols) # 0

\* lines 120-128: the line can be the name
NameCandidate(line) ==
    /\ FirstIn(line, EmailSymbols \cup {"@"}) = 0
    /\ ~HasPhone(line)
    /\ LongerThanTwo(line)
    /\ Head(line) \notin DigitSymbols \cup PhoneSymbols

\* re.search(pattern, full_text): the first symbol of the lines that is in set
RECURSIVE FirstSymbol(_, _)
FirstSymbol(lines, set) ==
    IF lines = <<>> THEN None
    ELSE IF FirstIn(Head(lines), set) # 0
    THEN Some(<<Head(lines)[FirstIn(Head(lines), set)]>>)
    ELSE FirstSymbol(Tail(lines), set)

UnknownName == <<"Unknown">>

ExtractMetadata(lines) ==
    LET first == Take(lines, 5)
        named == \E i \in 1..Len(first) : NameCandidate(first[i])
    IN  [name |-> IF named
                  THEN first[CHOOSE i \in 1..Len(first) :
                                 NameCandidate(first[i])
                                 /\ \A j \in 1..(i - 1) : ~NameCandidate(first[j])]
                  ELSE UnknownName,
         email |-> FirstSymbol(lines, EmailSymbols),
         phone |-> FirstSymbol(lines, PhoneSymbols \cup YearSymbols),
         linkedin |-> FirstSymbol(lines, LinkedinSymbols),
         github |-> FirstSymbol(lines, GithubSymbols),
         location |-> FirstSymbol(Take(lines, 10), LocationSymbols),
         website |-> None]

(***************************************************************************)
(* services/parser.py: parse_pdf, parse_docx, _parse_text.  The input is   *)
(* [readable, blocks, fault]: readable says whether the extractor reads    *)
(* the bytes; blocks are the [text, y] blocks (PDF) or paragraphs (DOCX)   *)
(* it yields; fault names the step after the read in which an exception is *)
(* raised ("none": in no step).                                            *)
(***************************************************************************)
\* ResumeMetadata(name="Unknown")
EmptyMetadata ==
    [name |-> UnknownName, email |-> None, phone |-> None, linkedin |-> None,
     github |-> None, location |-> None, website |-> None]

\* _create_empty_resume
CreateEmptyResume(next) ==
    [id |-> next, metadata |-> EmptyMetadata, sections |-> <<>>, version |-> 1]

NoResume ==
    [id |-> 0, metadata |-> [EmptyMetadata EXCEPT !.name = <<>>], sections |-> <<>>,
     version |-> 0]

ParsingErrorWarning == <<"parsing error: ">>
NoSectionsWarning == <<"Could not identify any sections. Manual editing may be required.">>

\* the steps of _parse_text, in the order they run
ParseSteps == <<"metadata", "sections", "items", "construct">>

\* _parse_text: a fault in a step leaves the function as an exception
ParseText(lines, fault, next) ==
    LET Built(metadata, r) ==
            [raised |-> FALSE,
             resume |-> [id |-> r.next, metadata |-> metadata, sections |-> r.sections,
                         version |-> 1],
             warnings |-> IF r.sections = <<>> THEN <<NoSectionsWarning>> ELSE <<>>]
    IN  IF fault # "none"
        THEN [raised |-> TRUE, resume |-> NoResume, warnings |-> <<>>]
        ELSE Built(ExtractMetadata(lines), ExtractSections(lines, next))

\* text_blocks.sort(key=lambda b: (b["y"], b["x"])): a stable insertion sort
RECURSIVE InsertByY(_, _)
InsertByY(sorted, b) ==
    IF sorted = <<>> THEN <<b>>
    ELSE IF b.y < Head(sorted).y THEN <<b>> \o sorted
    ELSE <<Head(sorted)>> \o InsertByY(Tail(sorted), b)

RECURSIVE SortByY(_)
SortByY(blocks) ==
    IF blocks = <<>> THEN <<>>
    ELSE InsertByY(SortByY(SubSeq(blocks, 1, Len(blocks) - 1)), blocks[Len(blocks)])

\* every block gives a line, also a block without text
BlockLinesWithBlank(blocks) == [i \in 1..Len(blocks) |-> Strip(blocks[i].text)]

\* [b["text"] for b in text_blocks if b["text"]], the text stripped
RECURSIVE BlockLines(_)
BlockLines(blocks) ==
    IF blocks = <<>> THEN <<>>
    ELSE (IF Strip(Head(blocks).text) # <<>> THEN <<Strip(Head(blocks).text)>> ELSE <<>>)
         \o BlockLines(Tail(blocks))

ParsePdf(input, next) ==
    IF ~input.readable
    THEN [raised |-> FALSE, resume |-> CreateEmptyResume(next),
          warnings |-> <<<<"PDF ">> \o ParsingErrorWarning>>]
    ELSE ParseText(BlockLines(SortByY(input.blocks)), input.fault, next)

ParseDocx(input, next) ==
    IF ~input.readable
    THEN [raised |-> FALSE, resume |-> CreateEmptyResume(next),
          warnings |-> <<<<"DOCX ">> \o ParsingErrorWarning>>]
    ELSE ParseText(BlockLines(input.blocks), input.fault, next)

(***************************************************************************)
(* The documents the model draws from.                                     *)
(***************************************************************************)
\* most sections of a document
MaxSections == 3
\* the longest line of a skills section
MaxSkillLine == 3

\* a section of a document: its header line and its content lines
SectionBlocks ==
    { <<<<"Experience">>, <<"engineer", " ", "at", " ", "a", " ", "2020", "-", "Present">>,
        <<"-", " ", "a">>, <<"Manager", ",", "b">>>>,
      <<<<"Experience">>>>,
      <<<<"EMPLOYMENT">>, <<"a", "b", "a">>>>,
      <<<<"Skills">>, <<"a", ",", " ", "b">>>>,
      <<<<"Skills">>, <<"-">>>>,
      <<<<"Projects">>, <<"a", "b">>, <<"*", "a">>>>,
      <<<<"Certifications">>, <<"a">>, <<"b", " ", "2021">>>>,
      <<<<"Education">>, <<"a", "b", "a">>>>,
      <<<<"Summary">>>> }

\* the documents of n sections
RECURSIVE DocsOf(_)
DocsOf(n) ==
    IF n = 0 THEN {<<>>}
    ELSE {d \o b : d \in DocsOf(n - 1), b \in SectionBlocks}

StructuredDocs == UNION {DocsOf(n) : n \in 0..MaxSections}

\* lines that come before the first header
Preambles ==
    { <<<<"a", "b", "a">>>>,
      <<<<"a@b.io">>, <<"2020">>, <<"a", " ", "b", " ", "a">>, <<"Austin, TX">>>>,
      <<<<"1", "a", "a">>, <<"555-1234", " ", "github.com/ann">>, <<"linkedin.com/in/ann">>>> }

HeadedDocs == {p \o b : p \in Preambles, b \in SectionBlocks \cup {<<>>}}

SkillSymbols == {"a", "b", ",", "-", ":"}

\* the stripped, non-empty lines of at most n symbols
SkillLines(n) ==
    UNION { { l \in [1..k -> SkillSymbols \cup {" "}] : l[1] # " " /\ l[k] # " " } : k \in 1..n }

SkillsDocs ==
    { <<<<"Skills">>, l>> \o more :
        l \in SkillLines(MaxSkillLine),
        more \in {<<>>, <<<<"b", ";", "a">>>>, <<<<"a", ":", " ", "b", "|", "a">>>>} }

\* documents with empty and blank paragraphs inside a section, and with a header
\* that has no content between two sections that have some
BlankLineDocs ==
    { <<<<"Certifications">>, <<"a">>, <<" ">>, <<"b">>>>,
      <<<<"Skills">>, <<"a", ",", " ", "b">>, <<"Experience">>,
        <<"Certifications">>, <<"a">>, <<" ">>, <<"b">>, <<>>, <<"a", "b">>,
        <<"Projects">>, <<"a">>, <<>>, <<"*", "a">>, <<" ">>, <<"*", "b">>, <<"b">>>> }

\* entries with a closed date range, an open one and none, bullets with a glyph
\* and with a numbered marker, and digits followed by a period inside a bullet
EntryDocs ==
    { <<<<"Experience">>,
        <<"engineer", " ", "2020", " ", "-", " ", "2021">>,
        <<"-", " ", "a", " ", "3", ".", "2", " ", "b">>,
        <<"1", ".", " ", "a">>,
        <<"Manager", ",", "b">>,
        <<"BULLET", "b", " ", "2021", ".", " ", "a">>,
        <<"engineer", " ", "at", " ", "a", " ", "2021", "to", "Current">>>>,
      <<<<"Projects">>, <<"a", " ", "b">>, <<"*", " ", "a", " ", "1", ".", " ", "b">>,
        <<"-", "b">>>> }

\* the blocks of a document, top to bottom
BlocksOf(doc) == [i \in 1..Len(doc) |-> [text |-> doc[i], y |-> i]]

\* the blocks of a document as a PDF page may list them: bottom to top
ReversedBlocksOf(doc) ==
    [i \in 1..Len(doc) |-> [text |-> doc[Len(doc) + 1 - i], y |-> Len(doc) + 1 - i]]

ReadableInputs ==
    { [readable |-> TRUE, blocks |-> BlocksOf(d), fault |-> "none"] :
        d \in StructuredDocs \cup HeadedDocs \cup SkillsDocs \cup BlankLineDocs
              \cup EntryDocs }

\* an exception raised inside a step of _parse_text
FaultyInputs ==
    { [readable |-> TRUE, blocks |-> BlocksOf(d), fault |-> ParseSteps[k]] :
        d \in HeadedDocs, k \in 1..Len(ParseSteps) }

UnreadableInputs == { [readable |-> FALSE, blocks |-> <<>>, fault |-> "none"] }

DocxInputs == ReadableInputs \cup FaultyInputs \cup UnreadableInputs

PdfInputs ==
    { [readable |-> TRUE, blocks |-> ReversedBlocksOf(d), fault |-> "none"] :
        d \in HeadedDocs \cup DocsOf(2) \cup BlankLineDocs }
    \cup FaultyInputs \cup UnreadableInputs

(***************************************************************************)
(* The parser's operations.  uuid4 is a source of fresh ids: the ids of    *)
(* one call are 1, 2, ... in the order the call draws them.                *)
(***************************************************************************)
\* the call ends: with its return value, or with the exception it let through
ParseOutcome(r) ==
    /\ presult' = r
    /\ ppc' = IF r.raised THEN "raised" ELSE "returned"

ParsePdfCall ==
    /\ pkind = "none"
    /\ \E input \in PdfInputs :
        /\ pinput' = input
        /\ ParseOutcome(ParsePdf(input, 1))
    /\ pkind' = "pdf"
    /\ UNCHANGED <<analysisVars, renderVars, compileVars, boundaryVars, concVars>>

ParseDocxCall ==
    /\ pkind = "none"
    /\ \E input \in DocxInputs :
        /\ pinput' = input
        /\ ParseOutcome(ParseDocx(input, 1))
    /\ pkind' = "docx"
    /\ UNCHANGED <<analysisVars, renderVars, compileVars, boundaryVars, concVars>>

\* the request is over
ParseDone ==
    /\ pkind # "none"
    /\ pkind' = "none" /\ ppc' = "idle"
    /\ pinput' = NoInput /\ presult' = NoParse
    /\ UNCHANGED <<analysisVars, renderVars, compileVars, boundaryVars, concVars>>

ParserInit ==
    client = FALSE /\ AnalysisIdle /\ ParserIdle /\ RenderIdle /\ CompileIdle /\ BoundaryIdle /\ ConcIdle

ParserNext == ParsePdfCall \/ ParseDocxCall \/ ParseDone

SpecParser == ParserInit /\ [][ParserNext]_vars

(***************************************************************************)
(* Claims about extraction.                                                *)
(***************************************************************************)
\* the call in progress met a failure: the bytes could not be read, or a step
\* of _parse_text raised
ParseFailed == pkind # "none" /\ (~pinput.readable \/ pinput.fault # "none")

\* the empty-but-valid outcome: name "Unknown", no sections, a warning
IsEmptyResume(r) ==
    /\ ~r.raised
    /\ r.resume.metadata.name = <<"Unknown">>
    /\ r.resume.sections = <<>>
    /\ Len(r.warnings) >= 1

\* C4: a failure at any internal step of parse_pdf / parse_docx (reading the
\* bytes, metadata extraction, section segmentation, per-kind parsing, model
\* construction) never leaves the parser as an exception: the call returns a
\* Resume named "Unknown" with no sections and at least one warning.
C4_FailureBecomesEmptyResume ==
    ParseFailed => ppc = "returned" /\ IsEmptyResume(presult)

\* what the code does guarantee: a failure to read the bytes is converted
C4_ReadFailureBecomesEmptyResume ==
    (pkind # "none" /\ ~pinput.readable) => ppc = "returned" /\ IsEmptyResume(presult)

\* the lines _parse_text receives for the input of the call in progress
InputLines ==
    IF pkind = "pdf" THEN BlockLines(SortByY(pinput.blocks)) ELSE BlockLines(pinput.blocks)

\* the call in progress parsed its document without a failure
Parsed == pkind # "none" /\ ppc = "returned" /\ pinput.readable /\ pinput.fault = "none"

IsHeader(line) == MatchedType(line) # "none"

\* the titles of the header lines that have a content line right after them
RECURSIVE ContentHeaders(_)
ContentHeaders(lines) ==
    IF Len(lines) < 2 THEN <<>>
    ELSE (IF IsHeader(lines[1]) /\ ~IsHeader(lines[2]) THEN <<lines[1]>> ELSE <<>>)
         \o ContentHeaders(Tail(lines))

\* a is b with some elements left out
RECURSIVE IsSubsequence(_, _)
IsSubsequence(a, b) ==
    IF a = <<>> THEN TRUE
    ELSE IF b = <<>> THEN FALSE
    ELSE IF Head(a) = Head(b) THEN IsSubsequence(Tail(a), Tail(b))
    ELSE IsSubsequence(a, Tail(b))

TitlesOf(sections) == [i \in 1..Len(sections) |-> sections[i].title]

\* C9: a header line followed immediately by another header line contributes
\* no section (the output sections come, in order, from headers that have a
\* content line right after them), and no output section has an empty items list.
C9_NoEmptySection ==
    Parsed =>
        /\ \A i \in 1..Len(presult.resume.sections) : presult.resume.sections[i].items # <<>>
        /\ IsSubsequence(TitlesOf(presult.resume.sections), ContentHeaders(InputLines))

\* a header right before another header was dropped and a later section kept
C9_Witness ==
    /\ Parsed
    /\ \E i \in 1..(Len(InputLines) - 1) : IsHeader(InputLines[i]) /\ IsHeader(InputLines[i + 1])
    /\ presult.resume.sections # <<>>

\* the separators of a colon-less skills line: , ; | bullet hyphen
TokenSeparators == {",", ";", "|", "BULLET", "-"}

\* s without its leading and trailing blanks
Trimmed(s) ==
    IF \A i \in 1..Len(s) : s[i] = " " THEN <<>>
    ELSE LET inked == {i \in 1..Len(s) : s[i] # " "}
             lo == CHOOSE i \in inked : \A j \in inked : i <= j
             hi == CHOOSE i \in inked : \A j \in inked : j <= i
         IN  SubSeq(s, lo, hi)

\* the tokens of a line, left to right: cur is the token being read
RECURSIVE ScanTokens(_, _)
ScanTokens(s, cur) ==
    LET flush == IF Trimmed(cur) = <<>> THEN <<>> ELSE <<Trimmed(cur)>>
    IN  IF s = <<>> THEN flush
        ELSE IF Head(s) \in TokenSeparators THEN flush \o ScanTokens(Tail(s), <<>>)
        ELSE ScanTokens(Tail(s), Append(cur, Head(s)))

RECURSIVE TokensOfLines(_)
TokensOfLines(lines) ==
    IF lines = <<>> THEN <<>> ELSE ScanTokens(Head(lines), <<>>) \o TokensOfLines(Tail(lines))

\* the document is one skills section whose lines all lack a colon
ColonlessSkills ==
    /\ Parsed
    /\ Len(InputLines) >= 2
    /\ MatchedType(InputLines[1]) = "skills"
    /\ \A i \in 2..Len(InputLines) :
        ~IsHeader(InputLines[i]) /\ \A k \in 1..Len(InputLines[i]) : InputLines[i][k] # ":"

\* one Skills item with the one category "Technical Skills" holding the tokens
OneTechnicalSkillsItem ==
    /\ Len(presult.resume.sections) = 1
    /\ Len(presult.resume.sections[1].items) = 1
    /\ presult.resume.sections[1].items[1].content.type = "skills"
    /\ presult.resume.sections[1].items[1].content.categories =
         <<[name |-> <<"Technical Skills">>, skills |-> TokensOfLines(Tail(InputLines))]>>

\* C10 as stated: a skills section whose lines all lack a colon yields exactly
\* one Skills item with exactly one category named "Technical Skills" whose
\* skill list is the trimmed, non-empty separator-split tokens in input order.
C10_ColonlessYieldsOneCategory == ColonlessSkills => OneTechnicalSkillsItem

\* C10 as amended: the same when the lines hold at least one token; a section
\* whose lines hold no token yields no item and is dropped.
C10_ColonlessWithTokens ==
    ColonlessSkills =>
        IF TokensOfLines(Tail(InputLines)) # <<>> THEN OneTechnicalSkillsItem
        ELSE presult.resume.sections = <<>>

\* two colon-less lines, a token that needed trimming, three tokens or more
C10_Witness ==
    /\ ColonlessSkills
    /\ Len(InputLines) = 3
    /\ \E k \in 1..Len(InputLines[2]) : InputLines[2][k] = " "
    /\ Len(TokensOfLines(Tail(InputLines))) >= 3
    /\ OneTechnicalSkillsItem

(***************************************************************************)
(* services/latex_renderer.py.  The LaTeX source is a sequence of symbols: *)
(* the characters of the escaped texts, one symbol each, and the fixed     *)
(* pieces of markup between them, one symbol each.  A control word such as *)
(* \textbackslash is one symbol.                                           *)
(***************************************************************************)
\* str.replace(old, new): every occurrence of the character, left to right
RECURSIVE Replace(_, _, _)
Replace(text, old, new) ==
    IF text = <<>> THEN <<>>
    ELSE (IF Head(text) = old THEN new ELSE <<Head(text)>>) \o Replace(Tail(text), old, new)

\* the replacements list of _escape_latex, in its order
LatexReplacements ==
    <<[old |-> "\\", new |-> <<"\\textbackslash", "{", "}">>],
      [old |-> "&", new |-> <<"\\", "&">>],
      [old |-> "%", new |-> <<"\\", "%">>],
      [old |-> "$", new |-> <<"\\", "$">>],
      [old |-> "#", new |-> <<"\\", "#">>],
      [old |-> "_", new |-> <<"\\", "_">>],
      [old |-> "{", new |-> <<"\\", "{">>],
      [old |-> "}", new |-> <<"\\", "}">>],
      [old |-> "~", new |-> <<"\\textasciitilde", "{", "}">>],
      [old |-> "^", new |-> <<"\\textasciicircum", "{", "}">>]>>

\* for old, new in replacements: text = text.replace(old, new)
RECURSIVE ReplaceEach(_, _)
ReplaceEach(text, replacements) ==
    IF replacements = <<>> THEN text
    ELSE ReplaceEach(Replace(text, Head(replacements).old, Head(replacements).new),
                     Tail(replacements))

\* _escape_latex
EscapeLatex(text) == ReplaceEach(text, LatexReplacements)

\* an optional text is true when it is there and not empty
Truthy(opt) == opt.some /\ opt.v # <<>>

\* self._escape_latex(x) if x else ""
EscapeOptional(opt) == IF Truthy(opt) THEN EscapeLatex(opt.v) ELSE <<>>

\* sorted(..., key=lambda x: x.order): stable
RECURSIVE InsertByOrder(_, _)
InsertByOrder(sorted, x) ==
    IF sorted = <<>> THEN <<x>>
    ELSE IF x.order < Head(sorted).order THEN <<x>> \o sorted
    ELSE <<Head(sorted)>> \o InsertByOrder(Tail(sorted), x)

RECURSIVE SortByOrder(_)
SortByOrder(xs) ==
    IF xs = <<>> THEN <<>>
    ELSE InsertByOrder(SortByOrder(SubSeq(xs, 1, Len(xs) - 1)), xs[Len(xs)])

\* sorted(...) left out: the siblings in array order
KeepArrayOrder(xs) == xs

\* the siblings in the order the renderers walk them
InRenderOrder(xs) == SortByOrder(xs)

\* the \item lines of the bullets given
RECURSIVE LatexItemLines(_)
LatexItemLines(bullets) ==
    IF bullets = <<>> THEN <<>>
    ELSE <<"    \\item ">> \o EscapeLatex(Head(bullets).text) \o <<"\n">>
         \o LatexItemLines(Tail(bullets))

\* if item.bullets: the itemize environment
LatexBullets(bullets) ==
    IF bullets = <<>> THEN <<>>
    ELSE <<"\\begin{itemize}", "\n">> \o LatexItemLines(InRenderOrder(bullets))
         \o <<"\\end{itemize}", "\n">>

Vspace == <<"\\vspace{4pt}", "\n\n">>

\* lines 230-232: the date range of an experience entry
LatexDateRange(item) ==
    LET Range(start_date, end_date) ==
            IF start_date # <<>> THEN start_date \o <<" -- ">> \o end_date ELSE end_date
    IN  Range(EscapeLatex(item.start_date),
              IF Truthy(item.end_date) THEN EscapeLatex(item.end_date.v) ELSE <<"Present">>)

\* _render_experience_item
RenderExperienceItem(item) ==
    <<"\n\\textbf{">> \o EscapeLatex(item.role) \o <<"} \\hfill ">> \o LatexDateRange(item)
    \o <<" \\\\\n\\textit{">> \o EscapeLatex(item.company) \o <<"} \\hfill \\textit{">>
    \o EscapeOptional(item.location) \o <<"}\n">>
    \o LatexBullets(item.bullets) \o Vspace

\* line 255: the end date of an education entry
LatexEndDate(item) == IF Truthy(item.end_date) THEN EscapeLatex(item.end_date.v) ELSE <<>>

\* _render_education_item
RenderEducationItem(item) ==
    <<"\n\\textbf{">> \o EscapeLatex(item.institution) \o <<"} \\hfill ">>
    \o EscapeOptional(item.location) \o <<" \\\\\n\\textit{">> \o EscapeLatex(item.degree)
    \o (IF Truthy(item.field) THEN <<" in ">> \o EscapeLatex(item.field.v) ELSE <<>>)
    \o <<"} \\hfill \\textit{">> \o LatexEndDate(item) \o <<"}\n">>
    \o (IF Truthy(item.gpa) THEN <<"\\\\ GPA: ">> \o EscapeLatex(item.gpa.v) \o <<"\n">>
        ELSE <<>>)
    \o LatexBullets(item.bullets) \o Vspace

\* [self._escape_latex(s) for s in texts]
RECURSIVE EscapeAll(_)
EscapeAll(texts) ==
    IF texts = <<>> THEN <<>> ELSE <<EscapeLatex(Head(texts))>> \o EscapeAll(Tail(texts))

RECURSIVE LatexCategories(_)
LatexCategories(categories) ==
    IF categories = <<>> THEN <<>>
    ELSE <<"\\textbf{">> \o EscapeLatex(Head(categories).name) \o <<":} ">>
         \o Join(EscapeAll(Head(categories).skills), <<", ">>) \o <<" \\\\", "\n">>
         \o LatexCategories(Tail(categories))

\* _render_skills_item
RenderSkillsItem(item) == LatexCategories(item.categories) \o Vspace

\* _render_summary_item
RenderSummaryItem(item) == EscapeLatex(item.text) \o <<"\n\n">> \o Vspace

\* _render_project_item
RenderProjectItem(item) ==
    <<"\\textbf{">> \o EscapeLatex(item.name) \o <<"}">>
    \o (IF item.technologies # <<>>
        THEN <<" \\textit{(">> \o Join(EscapeAll(item.technologies), <<", ">>) \o <<")}">>
        ELSE <<>>)
    \o (IF Truthy(item.url)
        THEN <<" -- \\href{">> \o EscapeLatex(item.url.v) \o <<"}{">>
             \o EscapeLatex(item.url.v) \o <<"}">>
        ELSE <<>>)
    \o <<"\n">>
    \o (IF Truthy(item.description)
        THEN <<"\\\\ ">> \o EscapeLatex(item.description.v) \o <<"\n">> ELSE <<>>)
    \o LatexBullets(item.bullets) \o Vspace

\* _render_custom_item
RenderCustomItem(item) ==
    (IF Truthy(item.title)
     THEN <<"\\textbf{">> \o EscapeLatex(item.title.v) \o <<"}">>
          \o (IF Truthy(item.date_range)
              THEN <<" \\hfill ">> \o EscapeLatex(item.date_range.v) ELSE <<>>)
          \o <<"\n">>
     ELSE <<>>)
    \o (IF Truthy(item.subtitle)
        THEN <<"\\textit{">> \o EscapeLatex(item.subtitle.v) \o <<"}">>
             \o (IF Truthy(item.location)
                 THEN <<" \\hfill \\textit{">> \o EscapeLatex(item.location.v) \o <<"}">>
                 ELSE <<>>)
             \o <<"\n">>
        ELSE <<>>)
    \o LatexBullets(item.bullets) \o Vspace

\* _render_item: the dispatch on the content variant
RenderItem(item) ==
    CASE item.content.type = "experience" -> RenderExperienceItem(item.content)
      [] item.content.type = "education" -> RenderEducationItem(item.content)
      [] item.content.type = "skills" -> RenderSkillsItem(item.content)
      [] item.content.type = "summary" -> RenderSummaryItem(item.content)
      [] item.content.type = "project" -> RenderProjectItem(item.content)
      [] OTHER -> RenderCustomItem(item.content)

RECURSIVE RenderItems(_)
RenderItems(items) ==
    IF items = <<>> THEN <<>> ELSE RenderItem(Head(items)) \o RenderItems(Tail(items))

\* a dispatch on the kind of the enclosing section, which the code does not make
RenderItemOfKind(kind, item) ==
    CASE kind = "experience" -> RenderExperienceItem(item.content)
      [] kind = "education" -> RenderEducationItem(item.content)
      [] kind = "skills" -> RenderSkillsItem(item.content)
      [] kind = "summary" -> RenderSummaryItem(item.content)
      [] kind = "projects" -> RenderProjectItem(item.content)
      [] OTHER -> RenderCustomItem(item.content)

RECURSIVE RenderItemsOfKind(_, _)
RenderItemsOfKind(kind, items) ==
    IF items = <<>> THEN <<>>
    ELSE RenderItemOfKind(kind, Head(items)) \o RenderItemsOfKind(kind, Tail(items))

RenderSectionByKind(section) ==
    <<"\\section{">> \o EscapeLatex(section.title) \o <<"}", "\n\n">>
    \o RenderItemsOfKind(section.type, InRenderOrder(section.items)) \o <<"\n">>

\* _render_section
RenderSection(section) ==
    <<"\\section{">> \o EscapeLatex(section.title) \o <<"}", "\n\n">>
    \o RenderItems(InRenderOrder(section.items)) \o <<"\n">>

RECURSIVE RenderSections(_)
RenderSections(sections) ==
    IF sections = <<>> THEN <<>>
    ELSE RenderSection(Head(sections)) \o RenderSections(Tail(sections))

\* the contact parts of _render_header, in the order of its tests
LatexContactParts(metadata) ==
    (IF Truthy(metadata.location)
     THEN <<<<"\\faMapMarker*\\ ">> \o EscapeLatex(metadata.location.v)>> ELSE <<>>)
    \o (IF Truthy(metadata.phone)
        THEN <<<<"\\faPhone*\\ ">> \o EscapeLatex(metadata.phone.v)>> ELSE <<>>)
    \o (IF Truthy(metadata.email)
        THEN <<<<"\\faEnvelope\\ \\href{mailto:">> \o EscapeLatex(metadata.email.v)
               \o <<"}{">> \o EscapeLatex(metadata.email.v) \o <<"}">>>> ELSE <<>>)
    \o (IF Truthy(metadata.linkedin)
        THEN <<<<"\\faLinkedin\\ \\href{https://">> \o EscapeLatex(metadata.linkedin.v)
               \o <<"}{">> \o EscapeLatex(metadata.linkedin.v) \o <<"}">>>> ELSE <<>>)
    \o (IF Truthy(metadata.github)
        THEN <<<<"\\faGithub\\ \\href{https://">> \o EscapeLatex(metadata.github.v)
               \o <<"}{">> \o EscapeLatex(metadata.github.v) \o <<"}">>>> ELSE <<>>)
    \o (IF Truthy(metadata.website)
        THEN <<<<"\\faGlobe\\ \\href{https://">> \o EscapeLatex(metadata.website.v)
               \o <<"}{">> \o EscapeLatex(metadata.website.v) \o <<"}">>>> ELSE <<>>)

\* _render_header
RenderHeader(metadata) ==
    LET Contact(contact_parts) ==
            IF contact_parts # <<>>
            THEN <<"    ">> \o Join(contact_parts, <<" $\\cdot$ ">>) \o <<"\n">>
            ELSE <<>>
    IN  <<"\n\\begin{center}\n    {\\Huge\\bfseries ">> \o EscapeLatex(metadata.name)
        \o <<"}\n    \n    \\vspace{4pt}\n    \n">>
        \o Contact(LatexContactParts(metadata))
        \o <<"\n\\end{center}\n\n\\vspace{-8pt}\n\n">>

\* _get_preamble and _get_footer: fixed text
GetPreamble == <<"\\documentclass ... \\begin{document}">>
GetFooter == <<"\n\\end{document}\n">>

\* LaTeXRenderer.render
Render(resume) ==
    GetPreamble \o RenderHeader(resume.metadata)
    \o RenderSections(InRenderOrder(resume.sections)) \o GetFooter

(***************************************************************************)
(* services/pdf_renderer.py.  The story is the sequence of flowables handed *)
(* to the layout engine: a Paragraph is [style, text], the two cells of a   *)
(* one-row Table are two Paragraphs in a row, a Spacer has the style        *)
(* "Spacer".  The text is the paragraph's XML: a tag is one symbol.         *)
(***************************************************************************)
\* the replacements of _escape, in their order
XmlReplacements ==
    <<[old |-> "&", new |-> <<"&amp;">>],
      [old |-> "<", new |-> <<"&lt;">>],
      [old |-> ">", new |-> <<"&gt;">>]>>

\* _escape
Escape(text) == ReplaceEach(text, XmlReplacements)

\* the text of an attribute that may be None
OptText(opt) == IF opt.some THEN opt.v ELSE <<>>

\* "**" stands at index i of s
StarsAt(s, i) == i >= 1 /\ i < Len(s) /\ s[i] = "*" /\ s[i + 1] = "*"

\* \*\*(.+?)\*\* matches from index i of s: the markers with a character or more between
BoldFrom(s, i) == StarsAt(s, i) /\ \E j \in (i + 3)..Len(s) : StarsAt(s, j)

\* re.sub(r'\*\*(.+?)\*\*', r'<b>\1</b>', s): leftmost match, shortest span, then on
RECURSIVE BoldSub(_)
BoldSub(s) ==
    LET Sub(i, j) ==
            SubSeq(s, 1, i - 1) \o <<"<b>">> \o SubSeq(s, i + 2, j - 1) \o <<"</b>">>
            \o BoldSub(SubSeq(s, j + 2, Len(s)))
        Close(i) == Sub(i, CHOOSE j \in (i + 3)..Len(s) :
                               StarsAt(s, j) /\ \A k \in (i + 3)..(j - 1) : ~StarsAt(s, k))
    IN  IF \E i \in 1..Len(s) : BoldFrom(s, i)
        THEN Close(CHOOSE i \in 1..Len(s) :
                       BoldFrom(s, i) /\ \A k \in 1..(i - 1) : ~BoldFrom(s, k))
        ELSE s

\* safe_text of _parse_markdown: what the substitution of the bold spans is applied to
SafeText(text) == Escape(text)

\* _parse_markdown
ParseMarkdown(text) == BoldSub(SafeText(text))

Paragraph(text, style) == [style |-> style, text |-> text]
Spacer == [style |-> "Spacer", text |-> <<>>]

\* the bullet paragraphs of the experience, education and project entries
RECURSIVE PdfBullets(_)
PdfBullets(bullets) ==
    IF bullets = <<>> THEN <<>>
    ELSE <<Paragraph(<<"BULLET", " ", " ">> \o ParseMarkdown(Head(bullets).text),
                     "ResumeBullet")>>
         \o PdfBullets(Tail(bullets))

\* lines 274-276: the date range of an experience entry
PdfDateRange(item) ==
    LET Range(start_date, end_date) ==
            IF start_date # <<>> THEN start_date \o <<" ", "ENDASH", " ">> \o end_date
            ELSE end_date
    IN  Range(ParseMarkdown(item.start_date),
              ParseMarkdown(IF Truthy(item.end_date) THEN item.end_date.v
                            ELSE <<"Present">>))

\* _build_experience_item
BuildExperienceItem(item) ==
    <<Paragraph(ParseMarkdown(item.role), "EntryTitle"),
      Paragraph(PdfDateRange(item), "EntryDate")>>
    \o (IF item.company # <<>> \/ Truthy(item.location)
        THEN <<Paragraph(ParseMarkdown(item.company), "EntrySubtitle"),
               Paragraph(ParseMarkdown(OptText(item.location)), "EntryLocation")>>
        ELSE <<>>)
    \o PdfBullets(InRenderOrder(item.bullets)) \o <<Spacer>>

\* line 326: the end date of an education entry
PdfEndDate(item) == Escape(OptText(item.end_date))

\* _build_education_item
BuildEducationItem(item) ==
    <<Paragraph(Escape(item.institution), "EntryTitle"),
      Paragraph(PdfEndDate(item), "EntryDate"),
      Paragraph(Escape(item.degree)
                \o (IF Truthy(item.field) THEN <<" in ">> \o Escape(item.field.v) ELSE <<>>)
                \o (IF Truthy(item.gpa) THEN <<" | GPA: ">> \o Escape(item.gpa.v) ELSE <<>>),
                "EntrySubtitle"),
      Spacer>>
    \o PdfBullets(InRenderOrder(item.bullets))

\* [self._parse_markdown(s) for s in texts]
RECURSIVE ParseMarkdownAll(_)
ParseMarkdownAll(texts) ==
    IF texts = <<>> THEN <<>>
    ELSE <<ParseMarkdown(Head(texts))>> \o ParseMarkdownAll(Tail(texts))

\* [self._escape(t) for t in texts]
RECURSIVE XmlEscapeAll(_)
XmlEscapeAll(texts) ==
    IF texts = <<>> THEN <<>> ELSE <<Escape(Head(texts))>> \o XmlEscapeAll(Tail(texts))

\* _build_skills_item
RECURSIVE BuildSkillsCategories(_)
BuildSkillsCategories(categories) ==
    IF categories = <<>> THEN <<>>
    ELSE <<Paragraph(<<"<b>">> \o ParseMarkdown(Head(categories).name) \o <<":", "</b>", " ">>
                     \o Join(ParseMarkdownAll(Head(categories).skills), <<", ">>),
                     "Skills")>>
         \o BuildSkillsCategories(Tail(categories))

BuildSkillsItem(item) == BuildSkillsCategories(item.categories)

\* _build_summary_item
BuildSummaryItem(item) == <<Paragraph(Escape(item.text), "Summary")>>

\* _build_project_item
BuildProjectItem(item) ==
    <<Paragraph(<<"<b>">> \o ParseMarkdown(item.name) \o <<"</b>">>
                \o (IF item.technologies # <<>>
                    THEN <<" <i>(">> \o Join(XmlEscapeAll(item.technologies), <<", ">>)
                         \o <<")</i>">>
                    ELSE <<>>),
                "EntryTitle")>>
    \o (IF ParseMarkdown(OptText(item.description)) # <<>>
        THEN <<Paragraph(ParseMarkdown(OptText(item.description)), "ResumeBullet")>>
        ELSE <<>>)
    \o PdfBullets(InRenderOrder(item.bullets)) \o <<Spacer>>

\* lines 455-460: the bullets of a custom entry; an empty one is left out
RECURSIVE PdfCustomBullets(_)
PdfCustomBullets(bullets) ==
    IF bullets = <<>> THEN <<>>
    ELSE (IF ParseMarkdown(Head(bullets).text) # <<>>
          THEN <<Paragraph(ParseMarkdown(Head(bullets).text), "ResumeBullet")>> ELSE <<>>)
         \o PdfCustomBullets(Tail(bullets))

\* _build_custom_item
BuildCustomItem(item) ==
    <<Paragraph(ParseMarkdown(OptText(item.title)), "EntryTitle"),
      Paragraph(ParseMarkdown(OptText(item.date_range)), "EntryDate")>>
    \o (IF Truthy(item.subtitle) \/ Truthy(item.location)
        THEN <<Paragraph(ParseMarkdown(OptText(item.subtitle)), "EntrySubtitle"),
               Paragraph(ParseMarkdown(OptText(item.location)), "EntryDate")>>
        ELSE <<>>)
    \o PdfCustomBullets(InRenderOrder(item.bullets))
    \o (IF item.text # <<>> /\ item.bullets = <<>>
        THEN <<Paragraph(ParseMarkdown(item.text), "BodyText")>> ELSE <<>>)
    \o <<Spacer>>

\* _build_item: the dispatch on the type tag
BuildItem(item) ==
    CASE item.content.type = "experience" -> BuildExperienceItem(item.content)
      [] item.content.type = "education" -> BuildEducationItem(item.content)
      [] item.content.type = "skills" -> BuildSkillsItem(item.content)
      [] item.content.type = "summary" -> BuildSummaryItem(item.content)
      [] item.content.type = "project" -> BuildProjectItem(item.content)
      [] OTHER -> BuildCustomItem(item.content)

RECURSIVE BuildItems(_)
BuildItems(items) ==
    IF items = <<>> THEN <<>> ELSE BuildItem(Head(items)) \o BuildItems(Tail(items))

\* str.upper(), symbol by symbol
UpperSymbol(c) == CASE c = "a" -> "A" [] c = "b" -> "B" [] OTHER -> c
Upper(text) == [i \in 1..Len(text) |-> UpperSymbol(text[i])]

\* _build_section
BuildSection(section) ==
    <<Paragraph(Escape(Upper(section.title)), "SectionTitle"), Spacer>>
    \o BuildItems(InRenderOrder(section.items))

RECURSIVE BuildSections(_)
BuildSections(sections) ==
    IF sections = <<>> THEN <<>>
    ELSE BuildSection(Head(sections)) \o BuildSections(Tail(sections))

\* line 204: the value is shown as a link
IsLink(field, value) ==
    \/ field \in {"linkedin", "github", "website"}
    \/ Head(value) = "http"
    \/ \E i \in 1..Len(value) : value[i] \in LinkedinSymbols

\* a header that keeps a blank entry for an absent field
ContactPartBlank(field, opt) == <<Escape(OptText(opt))>>

\* lines 199-211: the contact part of one field
ContactPart(field, opt) ==
    LET Part(value) ==
            IF field = "email"
            THEN <<"<a href=\"mailto:">> \o value \o <<"\">">> \o value \o <<"</a>">>
            ELSE IF IsLink(field, opt.v)
            THEN <<"<a href=\"">> \o (IF Head(value) = "http" THEN <<>> ELSE <<"https://">>)
                 \o value \o <<"\" color=\"blue\">">> \o value \o <<"</a>">>
            ELSE value
    IN  IF Truthy(opt) THEN <<Part(Escape(opt.v))>> ELSE <<>>

\* _build_header
BuildHeader(metadata) ==
    LET Contact(contact_parts) ==
            IF contact_parts # <<>>
            THEN <<Paragraph(Join(contact_parts, <<" ", " ", "BULLET", " ", " ">>), "Contact")>>
            ELSE <<>>
    IN  <<Paragraph(Escape(metadata.name), "ResumeName")>>
        \o Contact(ContactPart("location", metadata.location)
                   \o ContactPart("phone", metadata.phone)
                   \o ContactPart("email", metadata.email)
                   \o ContactPart("linkedin", metadata.linkedin)
                   \o ContactPart("github", metadata.github)
                   \o ContactPart("website", metadata.website))
        \o <<Spacer>>

\* PDFRenderer.render_pdf: the story given to doc.build
RenderPdf(resume) ==
    BuildHeader(resume.metadata) \o BuildSections(InRenderOrder(resume.sections))

(***************************************************************************)
(* The resumes the model hands to the renderers.                           *)
(***************************************************************************)
\* most siblings of one parent
MaxSiblings == 3
\* longest bullet text over the reserved characters
MaxReserved == 2
\* longest bullet text with bold markers
MaxBold == 5

\* the texts that name a section, an item of the first section, a bullet, and
\* the item of a later section
TitleNames == <<"T1", "T2", "T3", "T4", "T5">>
ItemNames == <<"I1", "I2", "I3", "I4", "I5">>
BulletNames == <<"B1", "B2", "B3", "B4", "B5">>
SingleNames == <<"J1", "J2", "J3", "J4", "J5">>

\* the order keys of n siblings, by array position: the permutations of 0..n-1
KeysOf(n) == {p \in [1..n -> 0..(n - 1)] : \A i, j \in 1..n : p[i] = p[j] => i = j}

KeyChoices == UNION {KeysOf(n) : n \in 1..MaxSiblings}

BulletsOf(r) == [i \in 1..Len(r) |-> Bullet(i, <<BulletNames[i]>>, r[i])]

\* an item of the first section: the four variants that carry bullets, in turn
VariedContent(j, bullets) ==
    CASE j % 4 = 1 -> [EmptyContent EXCEPT !.type = "experience", !.role = <<ItemNames[j]>>,
                                           !.start_date = <<"2020">>, !.bullets = bullets]
      [] j % 4 = 2 -> [EmptyContent EXCEPT !.type = "education",
                                           !.institution = <<ItemNames[j]>>,
                                           !.degree = <<"b">>,
                                           !.end_date = Some(<<"2021">>),
                                           !.bullets = bullets]
      [] j % 4 = 3 -> [EmptyContent EXCEPT !.type = "project", !.name = <<ItemNames[j]>>,
                                           !.bullets = bullets]
      [] OTHER -> [EmptyContent EXCEPT !.title = Some(<<ItemNames[j]>>), !.bullets = bullets]

\* the item of a later section: a skills item or a summary
SingleContent(i) ==
    IF i % 2 = 0
    THEN [EmptyContent EXCEPT !.type = "skills",
              !.categories = <<[name |-> <<SingleNames[i]>>, skills |-> <<<<"a">>, <<"b">>>>]>>]
    ELSE [EmptyContent EXCEPT !.type = "summary", !.text = <<SingleNames[i]>>]

SectionOf(i, order, items) ==
    [id |-> 100 * i, type |-> IF i = 1 THEN "experience" ELSE "custom",
     title |-> <<TitleNames[i]>>, order |-> order, items |-> items]

NameOnly == [EmptyMetadata EXCEPT !.name = <<"a", "&", "b">>]

ResumeOf(metadata, sections) ==
    [id |-> 1, metadata |-> metadata, sections |-> sections, version |-> 1]

\* sections keyed by p; the first holds items keyed by q, each with bullets keyed by r
OrderResume(p, q, r) ==
    ResumeOf(NameOnly,
        [i \in 1..Len(p) |->
            SectionOf(i, p[i],
                IF i = 1
                THEN [j \in 1..Len(q) |-> SectionItem(10 * j, q[j], VariedContent(j, BulletsOf(r)))]
                ELSE <<SectionItem(100 * i + 10, 0, SingleContent(i))>>)])

\* any number of sections and items with one bullet each, or two sections with any
\* number of items and bullets
OrderResumes ==
    {OrderResume(p, q, r) : p \in KeyChoices, q \in KeyChoices, r \in KeysOf(1)}
    \cup {OrderResume(p, q, r) : p \in KeysOf(2), q \in KeyChoices, r \in KeyChoices}

\* one entry with the end date given, and a start date or none
DateResumes ==
    { ResumeOf(NameOnly, <<SectionOf(1, 0, <<SectionItem(10, 0, content)>>)>>) :
        content \in
            { [EmptyContent EXCEPT !.type = "experience", !.role = <<"a">>,
                                   !.company = company, !.start_date = start,
                                   !.end_date = end] :
                company \in {<<>>, <<"b">>}, start \in {<<>>, <<"2020">>},
                end \in {None, Some(<<>>), Some(<<"2021">>)} }
            \cup
            { [EmptyContent EXCEPT !.type = "education", !.institution = <<"a">>,
                                   !.degree = <<"b">>, !.field = field, !.gpa = field,
                                   !.end_date = end] :
                field \in {None, Some(<<"3">>)},
                end \in {None, Some(<<>>), Some(<<"2021">>)} } }

\* the characters _escape_latex replaces, and an ordinary one
ReservedCharacters == {"\\", "&", "%", "$", "#", "_", "{", "}", "~", "^"}
LatexAlphabet == ReservedCharacters \cup {"a"}
BoldAlphabet == {"*", "a", "&"}

TextsOver(alphabet, n) == UNION {[1..k -> alphabet] : k \in 1..n}

BulletTexts == TextsOver(LatexAlphabet, MaxReserved) \cup TextsOver(BoldAlphabet, MaxBold)

\* one experience entry with the one bullet given
TextResumes ==
    { ResumeOf(NameOnly,
          <<SectionOf(1, 0,
              <<SectionItem(10, 0,
                  [EmptyContent EXCEPT !.type = "experience", !.role = <<"a">>,
                                       !.start_date = <<"2020">>,
                                       !.bullets = <<Bullet(1, text, 0)>>])>>)>>) :
        text \in BulletTexts }

\* no section, and the contact fields there or not
HeaderResumes ==
    { ResumeOf([name |-> <<"a">>, email |-> email, phone |-> phone, linkedin |-> linkedin,
                github |-> email, location |-> location, website |-> phone],
               <<>>) :
        email \in {None, Some(<<"a@b.io">>)}, phone \in {None, Some(<<"555-1234">>)},
        linkedin \in {None, Some(<<"linkedin.com/in/ann">>)},
        location \in {None, Some(<<>>), Some(<<"Austin, TX">>), Some(<<"http", "a">>)} }

RenderInputs == OrderResumes \cup DateResumes \cup TextResumes \cup HeaderResumes

(***************************************************************************)
(* The renderers' operations.                                              *)
(***************************************************************************)
\* LaTeXRenderer.render
RenderLatexCall ==
    /\ rkind = "none"
    /\ \E resume \in RenderInputs :
        /\ rinput' = resume
        /\ latex' = Render(resume)
    /\ rkind' = "latex"
    /\ UNCHANGED <<story, analysisVars, parserVars, compileVars, boundaryVars, concVars>>

\* PDFRenderer.render_pdf
RenderPdfCall ==
    /\ rkind = "none"
    /\ \E resume \in RenderInputs :
        /\ rinput' = resume
        /\ story' = RenderPdf(resume)
    /\ rkind' = "pdf"
    /\ UNCHANGED <<latex, analysisVars, parserVars, compileVars, boundaryVars, concVars>>

\* the request is over
RenderDone ==
    /\ rkind # "none"
    /\ rkind' = "none" /\ rinput' = NoParse.resume
    /\ latex' = <<>> /\ story' = <<>>
    /\ UNCHANGED <<analysisVars, parserVars, compileVars, boundaryVars, concVars>>

RenderInit ==
    client = FALSE /\ AnalysisIdle /\ ParserIdle /\ RenderIdle /\ CompileIdle /\ BoundaryIdle /\ ConcIdle

RenderNext == RenderLatexCall \/ RenderPdfCall \/ RenderDone

SpecRender == RenderInit /\ [][RenderNext]_vars

(***************************************************************************)
(* Claims about rendering.                                                 *)
(***************************************************************************)
\* a renderer has returned its output for rinput
Rendered == rkind # "none"

\* the texts of the flowables, one after the other
RECURSIVE StoryText(_)
StoryText(flowables) ==
    IF flowables = <<>> THEN <<>> ELSE Head(flowables).text \o StoryText(Tail(flowables))

\* the symbols of the output, in the order the output holds them
OutputSymbols == IF rkind = "latex" THEN latex ELSE StoryText(story)

NameSymbols ==
    {TitleNames[i] : i \in 1..Len(TitleNames)} \cup {ItemNames[i] : i \in 1..Len(ItemNames)}
    \cup {BulletNames[i] : i \in 1..Len(BulletNames)}
    \cup {SingleNames[i] : i \in 1..Len(SingleNames)}

\* the names that occur in a text, in the order they occur
RECURSIVE Named(_)
Named(text) ==
    IF text = <<>> THEN <<>>
    ELSE (IF Head(text) \in NameSymbols THEN <<Head(text)>> ELSE <<>>) \o Named(Tail(text))

\* the order keys of the siblings are a permutation of 0..n-1
KeysArePermutation(xs) ==
    /\ \A k \in 0..(Len(xs) - 1) : \E i \in 1..Len(xs) : xs[i].order = k
    /\ \A i \in 1..Len(xs) : xs[i].order \in 0..(Len(xs) - 1)

WellKeyed(resume) ==
    /\ KeysArePermutation(resume.sections)
    /\ \A i \in 1..Len(resume.sections) :
        /\ KeysArePermutation(resume.sections[i].items)
        /\ \A j \in 1..Len(resume.sections[i].items) :
            KeysArePermutation(resume.sections[i].items[j].content.bullets)

\* the siblings by ascending key: the k-th is the one whose key is k - 1
ByKey(xs) == [k \in 1..Len(xs) |-> xs[CHOOSE i \in 1..Len(xs) : xs[i].order = k - 1]]

RECURSIVE NamesOfBullets(_)
NamesOfBullets(bullets) ==
    IF bullets = <<>> THEN <<>>
    ELSE Named(Head(bullets).text) \o NamesOfBullets(Tail(bullets))

RECURSIVE NamesOfCategories(_)
NamesOfCategories(categories) ==
    IF categories = <<>> THEN <<>>
    ELSE Named(Head(categories).name) \o NamesOfCategories(Tail(categories))

RECURSIVE NamesOfItems(_)
NamesOfItems(items) ==
    IF items = <<>> THEN <<>>
    ELSE Named(Head(items).content.role \o Head(items).content.institution
               \o Head(items).content.name \o Head(items).content.title.v
               \o Head(items).content.text)
         \o NamesOfCategories(Head(items).content.categories)
         \o NamesOfBullets(ByKey(Head(items).content.bullets))
         \o NamesOfItems(Tail(items))

RECURSIVE NamesOfSections(_)
NamesOfSections(sections) ==
    IF sections = <<>> THEN <<>>
    ELSE Named(Head(sections).title) \o NamesOfItems(ByKey(Head(sections).items))
         \o NamesOfSections(Tail(sections))

\* C5: for a Resume whose sibling order keys (sections, items of a section,
\* bullets of an item) are each a permutation of 0..n-1, LaTeXRenderer.render
\* and PDFRenderer.render_pdf emit the siblings in ascending order-key
\* sequence, whatever the order of the input arrays.
C5_SiblingsInKeyOrder ==
    (Rendered /\ WellKeyed(rinput)) =>
        Named(OutputSymbols) = NamesOfSections(ByKey(rinput.sections))

\* sections, items and bullets that are all out of key order in their arrays
C5_Witness ==
    /\ Rendered /\ WellKeyed(rinput)
    /\ Len(rinput.sections) = 2 /\ rinput.sections[1].order = 1
    /\ Len(rinput.sections[1].items) = 3 /\ rinput.sections[1].items[1].order = 2
    /\ Len(rinput.sections[1].items[2].content.bullets) = 3
    /\ rinput.sections[1].items[2].content.bullets[1].order = 1
    /\ Named(OutputSymbols) = NamesOfSections(ByKey(rinput.sections))

\* the resume is one section with one entry
OneEntry == Rendered /\ Len(rinput.sections) = 1 /\ Len(rinput.sections[1].items) = 1

TheEntry == rinput.sections[1].items[1].content

\* the symbols of s after the first `open` and before the next `close`
Between(s, open, close) ==
    IF \E i \in 1..Len(s) : s[i] = open
    THEN LET from == CHOOSE i \in 1..Len(s) : s[i] = open /\ \A k \in 1..(i - 1) : s[k] # open
             to == IF \E j \in (from + 1)..Len(s) : s[j] = close
                   THEN CHOOSE j \in (from + 1)..Len(s) :
                            s[j] = close /\ \A k \in (from + 1)..(j - 1) : s[k] # close
                   ELSE Len(s) + 1
         IN  SubSeq(s, from + 1, to - 1)
    ELSE <<>>

\* the text of the first flowable of the style
TextOfStyle(flowables, style) ==
    IF \E i \in 1..Len(flowables) : flowables[i].style = style
    THEN flowables[CHOOSE i \in 1..Len(flowables) :
                       flowables[i].style = style
                       /\ \A k \in 1..(i - 1) : flowables[k].style # style].text
    ELSE <<>>

\* what the output shows in the date position of the entry
DateField ==
    IF rkind = "pdf" THEN TextOfStyle(story, "EntryDate")
    ELSE IF TheEntry.type = "experience"
    THEN Between(latex, "} \\hfill ", " \\\\\n\\textit{")
    ELSE Between(latex, "} \\hfill \\textit{", "}\n")

EndsWithPresent(field) == field # <<>> /\ field[Len(field)] = "Present"

\* C6: in both renderers an Experience item and an Education item whose
\* end_date is absent render the literal "Present" in the date position, never
\* an empty date field.
C6_PresentWhenEndDateAbsent ==
    (OneEntry /\ TheEntry.type \in {"experience", "education"} /\ ~TheEntry.end_date.some)
        => EndsWithPresent(DateField)

\* what the code does guarantee: the policy holds for Experience items
C6_PresentForExperience ==
    (OneEntry /\ TheEntry.type = "experience" /\ ~TheEntry.end_date.some)
        => EndsWithPresent(DateField)

\* the entry is an experience entry with one bullet
OneBullet == OneEntry /\ TheEntry.type = "experience" /\ Len(TheEntry.bullets) = 1

BulletText == TheEntry.bullets[1].text

\* what the output holds for the bullet
BulletOutput ==
    IF rkind = "latex" THEN Between(latex, "    \\item ", "\n")
    ELSE SubSeq(TextOfStyle(story, "ResumeBullet"), 4,
                Len(TextOfStyle(story, "ResumeBullet")))

\* the character a control word typesets
ControlWords ==
    [w \in {"\\textbackslash", "\\textasciitilde", "\\textasciicircum"} |->
        CASE w = "\\textbackslash" -> "\\"
          [] w = "\\textasciitilde" -> "~"
          [] OTHER -> "^"]

\* the characters a backslash escapes
EscapedByBackslash == {"&", "%", "$", "#", "_", "{", "}"}

\* the text TeX typesets for a piece of markup; a reserved character that is
\* not escaped shows as "UNESCAPED"
RECURSIVE Typeset(_)
Typeset(m) ==
    IF m = <<>> THEN <<>>
    ELSE IF Head(m) \in DOMAIN ControlWords
    THEN <<ControlWords[Head(m)]>>
         \o Typeset(IF Len(m) >= 3 /\ m[2] = "{" /\ m[3] = "}"
                    THEN SubSeq(m, 4, Len(m)) ELSE Tail(m))
    ELSE IF Head(m) = "\\" /\ Len(m) >= 2 /\ m[2] \in EscapedByBackslash
    THEN <<m[2]>> \o Typeset(SubSeq(m, 3, Len(m)))
    ELSE IF Head(m) \in ReservedCharacters THEN <<"UNESCAPED">> \o Typeset(Tail(m))
    ELSE <<Head(m)>> \o Typeset(Tail(m))

\* the bullet of a LaTeX rendering, its text over the reserved and ordinary characters
EscapedBullet ==
    /\ OneBullet /\ rkind = "latex"
    /\ \A i \in 1..Len(BulletText) : BulletText[i] \in LatexAlphabet

\* C7: for every text over the reserved TeX characters and ordinary
\* characters, _escape_latex gives markup with no unescaped reserved character
\* in which each input character is the escape sequence that typesets that
\* character, so the typeset text is the original; in particular the
\* replacement of a backslash is not altered by the later brace substitutions.
C7_EscapeRoundTrip == EscapedBullet => Typeset(BulletOutput) = BulletText

\* what the code does guarantee: the round trip of a text without a backslash
C7_RoundTripWithoutBackslash ==
    (EscapedBullet /\ \A i \in 1..Len(BulletText) : BulletText[i] # "\\")
        => Typeset(BulletOutput) = BulletText

\* t is pre ** X ** post with X not empty, and the markers hold its only asterisks
HasBoldSpan(t) ==
    \E i \in 1..Len(t), j \in 1..Len(t) :
        /\ j >= i + 3
        /\ t[i] = "*" /\ t[i + 1] = "*" /\ j < Len(t) /\ t[j] = "*" /\ t[j + 1] = "*"
        /\ \A k \in 1..Len(t) : t[k] = "*" => k \in {i, i + 1, j, j + 1}

\* the output opens the bold primitive and closes it after a symbol or more
HasBold(out, open, close) ==
    \E a \in 1..Len(out), b \in 1..Len(out) : b > a + 1 /\ out[a] = open /\ out[b] = close

NoAsterisk(out) == \A i \in 1..Len(out) : out[i] # "*"

\* C8: in both renderers a bullet text with a bold span **X** is rendered with
\* X inside the bold primitive (\textbf{X} in LaTeX, <b>X</b> in the PDF story)
\* and with no literal asterisk of the markers left in the output.
C8_BoldInBothRenderers ==
    (OneBullet /\ HasBoldSpan(BulletText)) =>
        /\ NoAsterisk(BulletOutput)
        /\ IF rkind = "latex" THEN HasBold(BulletOutput, "\\textbf{", "}")
           ELSE HasBold(BulletOutput, "<b>", "</b>")

\* what the code does guarantee: the bold span of the PDF story
C8_BoldInPdfStory ==
    (OneBullet /\ rkind = "pdf" /\ HasBoldSpan(BulletText)) =>
        NoAsterisk(BulletOutput) /\ HasBold(BulletOutput, "<b>", "</b>")

(***************************************************************************)
(* Further claims about the suggestion engine.                             *)
(***************************************************************************)
\* analyze_resume has returned an AnalysisResult
AnalyzeReturned == aop = "analyze" /\ apc = "returned"

\* C13: every AnalysisResult returned by analyze_resume has an integer score
\* in 0..100 and a match_score that is absent or an integer in 0..100, for
\* every oracle response.
C13_ScoresInRange ==
    AnalyzeReturned =>
        /\ aresult.score \in 0..100
        /\ aresult.match_score.t = "null" \/ aresult.match_score.n \in 0..100

\* what the code does guarantee: the scores are integers, or match_score is absent
C13_ScoresAreIntegers ==
    AnalyzeReturned =>
        /\ aresult.score \in Int
        /\ aresult.match_score.t \in {"null", "int"}

\* C16: analyze_resume leaves the input Resume tree unchanged on every path:
\* ids, order keys, text, section list and version are the same before and
\* after the call.
C16_ResumeUnchanged == aop = "analyze" => aresume = ainput

\* a call on a tree with sections that returned suggestions and skipped one
C16_Witness ==
    /\ AnalyzeReturned /\ aresume = ainput
    /\ ainput.sections # <<>>
    /\ aresult.suggestions # <<>>
    /\ Len(aresult.suggestions) < Len(ItemsOf(areply.body.suggestions))

\* the actions of the specification's taxonomy
TaxonomyActions == {"rewrite", "add", "delete", "format"}

\* C17: every suggestion returned by analyze_resume has type in {critical,
\* enhancement}, action in {rewrite, add, delete, format} and category in
\* {content, formatting}.
C17_ReturnedInTaxonomy ==
    AnalyzeReturned =>
        \A i \in 1..Len(aresult.suggestions) :
            /\ aresult.suggestions[i].type \in {"critical", "enhancement"}
            /\ aresult.suggestions[i].action \in TaxonomyActions
            /\ aresult.suggestions[i].category \in {"content", "formatting"}

\* what the code does guarantee: type and category are in their sets, and the
\* action is in the taxonomy or is "remove"
C17_ReturnedInEnums ==
    AnalyzeReturned =>
        \A i \in 1..Len(aresult.suggestions) :
            /\ aresult.suggestions[i].type \in {"critical", "enhancement"}
            /\ aresult.suggestions[i].action \in TaxonomyActions \cup {"remove"}
            /\ aresult.suggestions[i].category \in {"content", "formatting"}

\* a keyword entry that passes: an object with a string term, a boolean found
\* and a category that is a string or is not given
KeywordEntryValid(k) ==
    k.obj /\ k.term.t = "str" /\ k.found.t = "bool" /\ k.category.t \in {"missing", "str"}

ValidKeywords(entries) == SelectSeq(entries, KeywordEntryValid)

\* the result keeps the valid entries of the response and the response's score and summary
KeepsValidEntries(reply, result) ==
    /\ FirstTenInOrder(ItemsOf(reply.body.suggestions), result.suggestions)
    /\ Len(result.keywords) = Len(ValidKeywords(ItemsOf(reply.body.keywords)))
    /\ \A i \in 1..Len(result.keywords) :
        result.keywords[i].term = ValidKeywords(ItemsOf(reply.body.keywords))[i].term
    /\ result.score = Get(reply.body, "score", Num(50)).n
    /\ result.summary = TextOf(Get(reply.body, "summary", StrN("Analysis complete.", 18)))

\* the suggestion entries hold a valid one and an invalid one
HasValidAndInvalid(items) ==
    /\ SurvivingIdx(items) # {}
    /\ SurvivingIdx(items) # 1..Len(items)

\* C18 as stated: for any oracle response that is a JSON object, each invalid
\* suggestion or keyword entry is skipped and every valid entry is returned
\* with the oracle's score and summary, not the failure result.
C18_BadEntriesNeverFailObject ==
    (AnalyzeReturned /\ areply.status = "ok" /\ areply.body.shape = "object"
        /\ HasValidAndInvalid(ItemsOf(areply.body.suggestions))) =>
        KeepsValidEntries(areply, aresult)

\* C18 as amended: for any oracle response from which a result is assembled,
\* each invalid suggestion or keyword entry is skipped and the valid entries
\* (the first ten suggestions, every keyword) are returned with the oracle's
\* score and summary.
C18_BadEntriesSkippedWhenAssembled ==
    (AnalyzeReturned /\ Assembles(areply)) => KeepsValidEntries(areply, aresult)

\* a response with a malformed suggestion between two valid ones and a
\* malformed keyword before a valid one
C18_Witness ==
    /\ AnalyzeReturned /\ Assembles(areply)
    /\ Len(ItemsOf(areply.body.suggestions)) = 3 /\ Len(aresult.suggestions) = 2
    /\ Len(ItemsOf(areply.body.keywords)) = 2 /\ Len(aresult.keywords) = 1
    /\ ~KeywordEntryValid(ItemsOf(areply.body.keywords)[1])
    /\ KeepsValidEntries(areply, aresult)

(***************************************************************************)
(* Further claims about the extraction pipeline.                           *)
(***************************************************************************)
RECURSIVE IdsOfBullets(_)
IdsOfBullets(bullets) ==
    IF bullets = <<>> THEN <<>> ELSE <<Head(bullets).id>> \o IdsOfBullets(Tail(bullets))

RECURSIVE IdsOfItems(_)
IdsOfItems(items) ==
    IF items = <<>> THEN <<>>
    ELSE <<Head(items).id>> \o IdsOfBullets(Head(items).content.bullets)
         \o IdsOfItems(Tail(items))

RECURSIVE IdsOfSections(_)
IdsOfSections(sections) ==
    IF sections = <<>> THEN <<>>
    ELSE <<Head(sections).id>> \o IdsOfItems(Head(sections).items)
         \o IdsOfSections(Tail(sections))

\* the id of every node of the tree: the resume, its sections, their items, their bullets
IdsOfResume(resume) == <<resume.id>> \o IdsOfSections(resume.sections)

PairwiseDistinct(ids) == \A i \in 1..Len(ids), j \in 1..Len(ids) : i # j => ids[i] # ids[j]

\* C15: every Resume produced by the extraction pipeline, given an id source
\* that never returns the same value twice, has pairwise distinct ids across
\* the whole tree (resume, sections, items, bullets), the empty-resume
\* fallback included.
C15_IdsPairwiseDistinct ==
    (pkind # "none" /\ ppc = "returned") => PairwiseDistinct(IdsOfResume(presult.resume))

\* a parsed tree with two sections or more and an item with two bullets or more
C15_Witness ==
    /\ pkind # "none" /\ ppc = "returned"
    /\ Len(presult.resume.sections) >= 2
    /\ \E i \in 1..Len(presult.resume.sections) :
        \E j \in 1..Len(presult.resume.sections[i].items) :
            Len(presult.resume.sections[i].items[j].content.bullets) >= 2
    /\ PairwiseDistinct(IdsOfResume(presult.resume))

(***************************************************************************)
(* services/latex_renderer.py: compile_to_pdf and render_and_compile, and  *)
(* routers/render.py: the /render endpoint.  The temporary directory is    *)
(* [exists, files]; a pdflatex invocation is the one point where the call  *)
(* waits, and what it does is the compiler's choice.                       *)
(***************************************************************************)
\* for _ in range(2)
Passes == 2

\* timeout=30: the seconds one subprocess.run may last
CompileTimeout == 30

TexFile == "resume.tex"
PdfFile == "resume.pdf"

\* what one subprocess.run of pdflatex can do: it ends with exit status 0,
\* with another exit status, with TimeoutExpired, with FileNotFoundError or
\* with another exception, and leaves the files `wrote` in the directory
RunOutcomes ==
    { [end |-> e, wrote |-> w, timeout |-> CompileTimeout] :
        e \in {"exit0", "nonzero", "timeout", "error"},
        w \in {{}, {"resume.log"}, {"resume.log", "resume.aux", PdfFile}} }
    \cup {[end |-> "notfound", wrote |-> {}, timeout |-> CompileTimeout]}

\* the ends that leave subprocess.run as an exception
RunRaised(outcome) == outcome.end \in {"timeout", "notfound", "error"}

\* what pdf_path.read_bytes() can give: the bytes, no bytes, or an exception
ReadOutcomes == {"bytes", "empty", "raises"}

\* a with block that leaves the directory and its files behind
ExitTmpDirKeep(dir) == dir

\* leaving `with tempfile.TemporaryDirectory() as tmpdir`: the directory and
\* its contents are removed
ExitTmpDir(dir) == NoTmp

\* base64.b64encode(pdf_bytes).decode('utf-8')
B64Encode(bytes) == <<"base64">> \o bytes

\* render_and_compile: pdf_base64 = None; if pdf_bytes: pdf_base64 = b64encode(...)
EncodePdf(pdf) == IF pdf.some /\ pdf.v # <<>> THEN Some(B64Encode(pdf.v)) ELSE None

\* an endpoint that answers an error when there is no compiled PDF
RespondErrorWithoutPdf(markup, pdf_base64) ==
    IF ~pdf_base64.some THEN [status |-> 500, latex |-> <<>>, pdf_base64 |-> <<>>]
    ELSE [status |-> 200, latex |-> markup, pdf_base64 |-> pdf_base64.v]

\* render_resume after render_and_compile has returned (markup, pdf_base64)
Respond(markup, pdf_base64) ==
    IF ~(pdf_base64.some /\ pdf_base64.v # <<>>)
    THEN [status |-> 200, latex |-> markup, pdf_base64 |-> <<>>]
    ELSE [status |-> 200, latex |-> markup, pdf_base64 |-> pdf_base64.v]

\* render_resume when render_and_compile raised: HTTPException(status_code=500)
RespondError == [status |-> 500, latex |-> <<>>, pdf_base64 |-> <<>>]

\* compile_to_pdf returns pdf: the with block is left, render_and_compile
\* encodes the bytes and the endpoint answers
CompileReturns(markup, dir, pdf) ==
    /\ tmp' = ExitTmpDir(dir)
    /\ cresult' = [raised |-> FALSE, pdf |-> pdf]
    /\ response' = Respond(markup, EncodePdf(pdf))
    /\ cpc' = "done"

\* an exception leaves compile_to_pdf: the with block is left and the endpoint
\* answers the error
CompileRaises(dir) ==
    /\ tmp' = dir
    /\ cresult' = [raised |-> TRUE, pdf |-> None]
    /\ response' = RespondError
    /\ cpc' = "done"

\* the resumes sent to the /render endpoint
CompileInputs == HeaderResumes

\* render_and_compile up to the first pdflatex invocation: render, create the
\* directory, write resume.tex
CompileCall ==
    /\ cpc = "idle"
    /\ \E resume \in CompileInputs, setup \in {"ok", "mkdtemp raises", "write_text raises"} :
        /\ rinput' = resume
        /\ latex' = Render(resume)
        /\ clog' = <<>>
        /\ CASE setup = "ok" ->
                  /\ tmp' = [exists |-> TRUE, files |-> {TexFile}]
                  /\ cresult' = NoCompile /\ response' = NoResponse
                  /\ cpc' = "running"
             [] setup = "mkdtemp raises" -> CompileRaises(NoTmp)
             [] OTHER -> CompileRaises(ExitTmpDir([exists |-> TRUE, files |-> {}]))
    /\ UNCHANGED <<rkind, story, analysisVars, parserVars, boundaryVars, concVars>>

\* a check that returns bytes without looking for the output file
CheckOutputUnseen(dir, read) == Some(<<"%PDF">>)

\* after the loop: if pdf_path.exists(): return pdf_path.read_bytes() else: return None
CheckOutput(dir, read) ==
    IF PdfFile \notin dir.files THEN None
    ELSE IF read = "bytes" THEN Some(<<"%PDF">>)
    ELSE IF read = "empty" THEN Some(<<>>)
    ELSE None                                    \* except Exception: return None

\* one pdflatex invocation ends and compile_to_pdf runs on to the next
\* invocation or to its return
CompilerRun ==
    /\ cpc = "running" /\ Len(clog) < Passes
    /\ \E outcome \in RunOutcomes, read \in ReadOutcomes :
        /\ clog' = Append(clog, outcome)
        /\ IF RunRaised(outcome)
           THEN CompileReturns(latex, [tmp EXCEPT !.files = @ \cup outcome.wrote], None)
           ELSE IF Len(clog) + 1 < Passes
           THEN /\ tmp' = [tmp EXCEPT !.files = @ \cup outcome.wrote]
                /\ UNCHANGED <<cpc, cresult, response>>
           ELSE CompileReturns(latex, [tmp EXCEPT !.files = @ \cup outcome.wrote],
                               CheckOutput([tmp EXCEPT !.files = @ \cup outcome.wrote], read))
    /\ UNCHANGED <<renderVars, analysisVars, parserVars, boundaryVars, concVars>>

\* the request is over
CompileDone ==
    /\ cpc = "done"
    /\ cpc' = "idle" /\ tmp' = NoTmp /\ clog' = <<>>
    /\ cresult' = NoCompile /\ response' = NoResponse
    /\ rinput' = NoParse.resume /\ latex' = <<>>
    /\ UNCHANGED <<rkind, story, analysisVars, parserVars, boundaryVars, concVars>>

CompileInit ==
    client = FALSE /\ AnalysisIdle /\ ParserIdle /\ RenderIdle /\ CompileIdle /\ BoundaryIdle /\ ConcIdle

CompileNext == CompileCall \/ CompilerRun \/ CompileDone

SpecCompile == CompileInit /\ [][CompileNext]_vars

(***************************************************************************)
(* Claims about compilation.                                               *)
(***************************************************************************)
\* the files the invocations up to the i-th left in the directory
RECURSIVE WroteUpTo(_, _)
WroteUpTo(log, i) == IF i = 0 THEN {} ELSE log[i].wrote \cup WroteUpTo(log, i - 1)

\* the call ended by a compiler timeout, by a missing compiler, or after the
\* last pass exited with no output file in the directory
CompilationFailed ==
    /\ cpc = "done" /\ clog # <<>>
    /\ \/ clog[Len(clog)].end \in {"timeout", "notfound"}
       \/ /\ Len(clog) = Passes
          /\ clog[Len(clog)].end \in {"exit0", "nonzero"}
          /\ PdfFile \notin WroteUpTo(clog, Len(clog))

\* C11: compilation failure is non-fatal: when the compiler times out, is not
\* found, or exits leaving no output file, compile_to_pdf returns None without
\* raising, render_and_compile still returns the full markup, and the /render
\* endpoint answers with the markup and an empty pdf_base64, not an error.
C11_CompileFailureNonFatal ==
    CompilationFailed =>
        /\ ~cresult.raised /\ ~cresult.pdf.some
        /\ response = [status |-> 200, latex |-> Render(rinput), pdf_base64 |-> <<>>]

\* the second pass exited with another status than 0 and there is no PDF
C11_Witness ==
    /\ CompilationFailed /\ Len(clog) = Passes /\ clog[Passes].end = "nonzero"
    /\ response.status = 200 /\ response.latex # <<>> /\ response.pdf_base64 = <<>>

\* C12: the temporary directory created by compile_to_pdf, with all its
\* contents, no longer exists once compile_to_pdf has returned, on every exit
\* path: success, timeout, compiler not found, missing output file, or any
\* other exception.
C12_TmpDirRemoved == cpc = "done" => (~tmp.exists /\ tmp.files = {})

\* a timeout after the compiler had written files
C12_Witness ==
    /\ cpc = "done" /\ Len(clog) = Passes
    /\ clog[Passes].end = "timeout" /\ clog[Passes].wrote # {}
    /\ ~tmp.exists /\ tmp.files = {}

\* the i-th invocation failed: it raised, or it exited with another status
\* than 0 and there was no output file after it
FailedRun(log, i) ==
    \/ RunRaised(log[i])
    \/ log[i].end = "nonzero" /\ PdfFile \notin WroteUpTo(log, i)

C19_NoInvocationAfterRaise ==
    /\ Len(clog) <= Passes
    /\ \A i \in 1..(Len(clog) - 1) : ~RunRaised(clog[i])

\* what the code does guarantee for the oracle: one invocation at most in a call
C19_OracleInvokedOnce == acalls <= 1 /\ (apc = "returned" => acalls = 1)

(***************************************************************************)
(* routers/parse.py and routers/analyze.py: the /parse and /analyze        *)
(* endpoints.  bcore lists the core operations the endpoint invoked.       *)
(***************************************************************************)
\* str.lower() on the characters of the file names
LowerChar(c) ==
    CASE c = "P" -> "p" [] c = "D" -> "d" [] c = "F" -> "f" [] c = "C" -> "c"
      [] c = "V" -> "v" [] OTHER -> c

LowerName(name) == [i \in 1..Len(name) |-> LowerChar(name[i])]

\* str.endswith
EndsWith(s, suffix) ==
    Len(s) >= Len(suffix) /\ SubSeq(s, Len(s) - Len(suffix) + 1, Len(s)) = suffix

DotPdf == <<".", "p", "d", "f">>
DotDocx == <<".", "d", "o", "c", "x">>

\* filename = file.filename.lower() if file.filename else ""
RequestFilename(filename) == IF Truthy(filename) THEN LowerName(filename.v) ELSE <<>>

\* the names of the uploaded files; an upload may carry no name
FileNames ==
    { None, Some(<<>>), Some(<<"c", "v">> \o DotPdf), Some(<<"C", "V", ".", "P", "D", "F">>),
      Some(<<"c", "v">> \o DotDocx), Some(DotPdf), Some(<<"p", "d", "f">>),
      Some(<<"c", "v", ".", "d", "o", "c">>), Some(<<"c", "v">> \o DotPdf \o <<".", "t", "x", "t">>),
      Some(<<"c", "v">> \o DotDocx \o <<" ">>), Some(<<"c", "v", ".", "t", "x", "t">>) }

\* what the extractor yields for the uploaded bytes
UploadInputs ==
    UnreadableInputs \cup FaultyInputs
    \cup { [readable |-> TRUE, blocks |-> BlocksOf(d), fault |-> "none"] : d \in HeadedDocs }

\* the job descriptions of the requests
JobDescriptions == {<<>>, <<" ">>, <<" ", "\t", "\n">>, <<"j", "d">>, <<" ", "j", " ">>}

\* the oracle's replies to the requests
BoundaryReplies ==
    ErrorReplies \cup ShapeReplies
    \cup { [status |-> "ok", errLen |-> 0,
            body |-> [EmptyBody EXCEPT !.score = Num(85), !.summary = StrN("s", 3),
                                       !.suggestions = ListOf(<<GoodEntry(1)>>)]] }

\* the parser call of parse_resume ends: ParseResponse, or HTTPException(500)
ParseAnswer(kind, input, r) ==
    /\ pkind' = kind /\ pinput' = input
    /\ ParseOutcome(r)
    /\ bcore' = <<IF kind = "pdf" THEN "parse_pdf" ELSE "parse_docx">>
    /\ bresp' = IF r.raised THEN 500 ELSE 200

\* parse_resume: the /parse endpoint
ParseRequest ==
    /\ breq = NoRequest
    /\ \E filename \in FileNames, readable \in BOOLEAN, input \in UploadInputs :
        /\ breq' = [kind |-> "parse", filename |-> OptText(filename), job_description |-> <<>>]
        /\ IF ~(EndsWith(RequestFilename(filename), DotPdf)
                \/ EndsWith(RequestFilename(filename), DotDocx))
           THEN bresp' = 400 /\ bcore' = <<>> /\ UNCHANGED parserVars
           ELSE IF ~readable                   \* await file.read() raised
           THEN bresp' = 500 /\ bcore' = <<>> /\ UNCHANGED parserVars
           ELSE IF EndsWith(RequestFilename(filename), DotPdf)
           THEN ParseAnswer("pdf", input, ParsePdf(input, 1))
           ELSE ParseAnswer("docx", input, ParseDocx(input, 1))
    /\ UNCHANGED <<analysisVars, renderVars, compileVars, concVars>>

\* analyze_resume of routers/analyze.py: the /analyze endpoint; the service is
\* built for the request from the environment
AnalyzeRequest ==
    /\ breq = NoRequest
    /\ \E job_description \in JobDescriptions, resume \in AnalysisResumes,
          reply \in BoundaryReplies :
        /\ breq' = [kind |-> "analyze", filename |-> <<>>, job_description |-> job_description]
        /\ bcore' = <<"analyze_resume">>      \* a blank job description: pass
        /\ ainput' = resume
        /\ IF client
           THEN /\ aresume' = DumpedResume(resume)
                /\ areply' = reply /\ aresult' = AnalyzeResult(reply)
                /\ bresp' = 200
           ELSE /\ aresume' = resume           \* the service raises: HTTPException(500)
                /\ UNCHANGED <<areply, aresult>>
                /\ bresp' = 500
    /\ UNCHANGED <<client, aop, apc, acalls, curText, eresult>>
    /\ UNCHANGED <<parserVars, renderVars, compileVars, concVars>>

\* the request is over
BoundaryDone ==
    /\ breq # NoRequest
    /\ breq' = NoRequest /\ bcore' = <<>> /\ bresp' = 0
    /\ pkind' = "none" /\ ppc' = "idle" /\ pinput' = NoInput /\ presult' = NoParse
    /\ areply' = NoReply /\ aresult' = NoResult
    /\ ainput' = NoParse.resume /\ aresume' = NoParse.resume
    /\ UNCHANGED <<client, aop, apc, acalls, curText, eresult>>
    /\ UNCHANGED <<renderVars, compileVars, concVars>>

BoundaryInit ==
    /\ client \in BOOLEAN
    /\ AnalysisIdle /\ ParserIdle /\ RenderIdle /\ CompileIdle /\ BoundaryIdle /\ ConcIdle

BoundaryNext == ParseRequest \/ AnalyzeRequest \/ BoundaryDone

SpecBoundary == BoundaryInit /\ [][BoundaryNext]_vars

(***************************************************************************)
(* Claims about the boundary.                                              *)
(***************************************************************************)
\* the name, whatever its case, ends in .pdf or .docx
RecognizedName(name) == EndsWith(LowerName(name), DotPdf) \/ EndsWith(LowerName(name), DotDocx)

\* the text is empty or holds white space only
Blank(text) == \A i \in 1..Len(text) : text[i] \in {" ", "\t", "\n"}

\* the request was rejected as a client error and no core operation was invoked
RejectedAtBoundary == bcore = <<>> /\ bresp \in 400..499

\* C14: input errors never reach the core: a request whose file name does not
\* end in .pdf or .docx is rejected before any parser operation is invoked,
\* and a request whose job description is empty or blank is rejected before
\* analyze_resume is invoked.
C14_InputErrorsRejected ==
    /\ (breq.kind = "parse" /\ ~RecognizedName(breq.filename)) => RejectedAtBoundary
    /\ (breq.kind = "analyze" /\ Blank(breq.job_description)) => RejectedAtBoundary

\* what the code does guarantee: the file type is checked before the parser
C14_BadFileTypeRejected ==
    (breq.kind = "parse" /\ ~RecognizedName(breq.filename)) => RejectedAtBoundary

(***************************************************************************)
(* Claims about the header.                                                *)
(***************************************************************************)
\* the fixed order of the contact fields
ContactOrder == <<"location", "phone", "email", "linkedin", "github", "website">>

\* the field is present: it is given and it is not the empty string
PresentField(metadata, field) == metadata[field].some /\ metadata[field].v # <<>>

\* the values of the present fields from the k-th field of the order on
RECURSIVE PresentValuesFrom(_, _)
PresentValuesFrom(metadata, k) ==
    IF k > Len(ContactOrder) THEN <<>>
    ELSE (IF PresentField(metadata, ContactOrder[k])
          THEN <<metadata[ContactOrder[k]].v>> ELSE <<>>)
         \o PresentValuesFrom(metadata, k + 1)

RECURSIVE PresentFieldsFrom(_, _)
PresentFieldsFrom(metadata, k) ==
    IF k > Len(ContactOrder) THEN <<>>
    ELSE (IF PresentField(metadata, ContactOrder[k]) THEN <<ContactOrder[k]>> ELSE <<>>)
         \o PresentFieldsFrom(metadata, k + 1)

\* the contact line of the LaTeX header: what stands between the name and \end{center}
LatexContactLine ==
    Between(latex, "}\n    \n    \\vspace{4pt}\n    \n", "\n\\end{center}\n\n\\vspace{-8pt}\n\n")

\* the entries of the contact line of the output, separators removed
ContactEntries ==
    IF rkind = "latex"
    THEN IF LatexContactLine = <<>> THEN <<>>
         ELSE SplitOn(SubSeq(LatexContactLine, 2, Len(LatexContactLine) - 1), {" $\\cdot$ "})
    ELSE IF \A i \in 1..Len(story) : story[i].style # "Contact" THEN <<>>
    ELSE LET parts == SplitOn(TextOfStyle(story, "Contact"), {"BULLET"})
         IN  [i \in 1..Len(parts) |-> Strip(parts[i])]

\* the field an icon of the LaTeX header stands for
IconField(icon) ==
    CASE icon = "\\faMapMarker*\\ " -> "location"
      [] icon = "\\faPhone*\\ " -> "phone"
      [] icon = "\\faEnvelope\\ \\href{mailto:" -> "email"
      [] icon = "\\faLinkedin\\ \\href{https://" -> "linkedin"
      [] icon = "\\faGithub\\ \\href{https://" -> "github"
      [] icon = "\\faGlobe\\ \\href{https://" -> "website"
      [] OTHER -> "none"

\* the text an entry shows: the text of its link, or the entry after its icon
ShownText(entry) ==
    IF entry = <<>> THEN <<>>
    ELSE IF rkind = "latex"
    THEN IF \E i \in 1..Len(entry) : entry[i] = "}{"
         THEN SubSeq(Between(entry, "}{", "none"), 1, Len(Between(entry, "}{", "none")) - 1)
         ELSE Tail(entry)
    ELSE IF entry[Len(entry)] = "</a>"
    THEN SubSeq(entry, FirstIn(entry, {"\">", "\" color=\"blue\">"}) + 1, Len(entry) - 1)
    ELSE entry

\* a header-only resume has been rendered
HeaderRendered == Rendered /\ rinput.sections = <<>>

\* C20: in both renderers the header lists exactly the contact fields that
\* are present, in the fixed order location, phone, email, linkedin, github,
\* website; an absent field contributes nothing (no empty entry, no extra
\* separator), and with no contact field present no contact line is emitted.
C20_HeaderListsPresentFields ==
    HeaderRendered =>
        /\ Len(ContactEntries) = Len(PresentValuesFrom(rinput.metadata, 1))
        /\ \A i \in 1..Len(ContactEntries) :
            /\ ShownText(ContactEntries[i]) = PresentValuesFrom(rinput.metadata, 1)[i]
            /\ rkind = "latex" =>
                IconField(Head(ContactEntries[i])) = PresentFieldsFrom(rinput.metadata, 1)[i]
        /\ PresentValuesFrom(rinput.metadata, 1) = <<>> =>
            IF rkind = "latex" THEN LatexContactLine = <<>>
            ELSE \A i \in 1..Len(story) : story[i].style # "Contact"

\* a header with absent fields between present ones
C20_Witness ==
    /\ HeaderRendered
    /\ ~PresentField(rinput.metadata, "location") /\ PresentField(rinput.metadata, "phone")
    /\ ~PresentField(rinput.metadata, "email") /\ PresentField(rinput.metadata, "linkedin")
    /\ Len(ContactEntries) = 3

(***************************************************************************)
(* Claims about the per-kind parsers.                                      *)
(***************************************************************************)
\* the kinds with a parser of their own
DedicatedKinds == {"experience", "education", "skills", "summary", "projects"}

\* C21: for a section of a kind with no dedicated parser, extraction turns
\* every non-empty content line into its own Custom item containing exactly
\* one bullet, with the item's order equal to the line's index.
C21_OneCustomItemPerLine ==
    Parsed =>
        \A i \in 1..Len(presult.resume.sections) :
            presult.resume.sections[i].type \notin DedicatedKinds =>
                \A j \in 1..Len(presult.resume.sections[i].items) :
                    /\ presult.resume.sections[i].items[j].content.type = "custom"
                    /\ Len(presult.resume.sections[i].items[j].content.bullets) = 1
                    /\ presult.resume.sections[i].items[j].order = j - 1

\* what the code does: one Custom item of order 0 holds a bullet for every
\* non-empty line, the bullet's order being the line's index
C21_OneCustomItemPerSection ==
    Parsed =>
        \A i \in 1..Len(presult.resume.sections) :
            presult.resume.sections[i].type \notin DedicatedKinds =>
                /\ Len(presult.resume.sections[i].items) = 1
                /\ presult.resume.sections[i].items[1].content.type = "custom"
                /\ presult.resume.sections[i].items[1].order = 0
                /\ presult.resume.sections[i].items[1].content.bullets # <<>>

(***************************************************************************)
(* Claims about the dispatch of the renderers.                             *)
(***************************************************************************)
\* models/resume.py, SectionType
SectionKinds ==
    {"summary", "experience", "education", "skills", "projects", "certifications",
     "languages", "custom"}

\* the resume with every section declared of the kind given
OfKind(resume, kind) ==
    [resume EXCEPT !.sections =
        [i \in 1..Len(resume.sections) |-> [resume.sections[i] EXCEPT !.type = kind]]]

\* an item whose variant is not the one the kind of its section suggests
ForeignItem ==
    \E i \in 1..Len(rinput.sections) :
        \E j \in 1..Len(rinput.sections[i].items) :
            /\ rinput.sections[i].type = "experience"
            /\ rinput.sections[i].items[j].content.type \in {"education", "skills", "project"}

C22_WitnessPdf == Rendered /\ rkind = "pdf" /\ ForeignItem

(***************************************************************************)
(* Claims about the order keys the extraction assigns.                     *)
(***************************************************************************)
\* the order key of every element is its position in the list, counted from 0
OrderIsPosition(siblings) == \A k \in 1..Len(siblings) : siblings[k].order = k - 1

\* a block of the input with no text
HasBlankBlock == \E k \in 1..Len(pinput.blocks) : Strip(pinput.blocks[k].text) = <<>>

\* a header whose section was discarded, with a section kept before and after it
DiscardedBetween ==
    /\ \E k \in 2..(Len(InputLines) - 1) : IsHeader(InputLines[k]) /\ IsHeader(InputLines[k + 1])
    /\ Len(presult.resume.sections) >= 2

\* C23: in every extracted Resume the order keys of the sections, of the items
\* of a section and of the bullets of an item are unique and ascend with the
\* list position (the key is the position), also when a section in between
\* was discarded and when the document has blank lines inside a section.
C23_OrderKeysArePositions ==
    Parsed =>
        /\ OrderIsPosition(presult.resume.sections)
        /\ \A i \in 1..Len(presult.resume.sections) :
            /\ OrderIsPosition(presult.resume.sections[i].items)
            /\ \A j \in 1..Len(presult.resume.sections[i].items) :
                OrderIsPosition(presult.resume.sections[i].items[j].content.bullets)

C23_Witness ==
    /\ Parsed /\ HasBlankBlock /\ DiscardedBetween
    /\ \E i \in 1..Len(presult.resume.sections) :
        /\ presult.resume.sections[i].type = "certifications"
        /\ Len(presult.resume.sections[i].items[1].content.bullets) = 3
    /\ \E i \in 1..Len(presult.resume.sections) :
        /\ presult.resume.sections[i].type = "projects"
        /\ Len(presult.resume.sections[i].items) = 2
        /\ Len(presult.resume.sections[i].items[1].content.bullets) = 2

(***************************************************************************)
(* Claims about the order of escaping and bold-span extraction.            *)
(***************************************************************************)
\* the bold spans taken from the text as given, and each piece escaped afterwards
RECURSIVE EscapeSpans(_)
EscapeSpans(s) ==
    LET Sub(i, j) ==
            Escape(SubSeq(s, 1, i - 1)) \o <<"<b>">> \o Escape(SubSeq(s, i + 2, j - 1))
            \o <<"</b>">> \o EscapeSpans(SubSeq(s, j + 2, Len(s)))
        Close(i) == Sub(i, CHOOSE j \in (i + 3)..Len(s) :
                               StarsAt(s, j) /\ \A k \in (i + 3)..(j - 1) : ~StarsAt(s, k))
    IN  IF \E i \in 1..Len(s) : BoldFrom(s, i)
        THEN Close(CHOOSE i \in 1..Len(s) :
                       BoldFrom(s, i) /\ \A k \in 1..(i - 1) : ~BoldFrom(s, k))
        ELSE Escape(s)

\* C24: reserved-character escaping is applied after the extraction of the
\* bold spans, never before: the text the extraction works on is the bullet
\* text as given, with no escaping applied to it yet.
C24_ExtractionBeforeEscaping ==
    (OneBullet /\ rkind = "pdf") =>
        /\ BulletOutput = BoldSub(SafeText(BulletText))
        /\ SafeText(BulletText) = BulletText

\* what the code does guarantee: the story holds what escaping the pieces after
\* the extraction would give, the escaping leaving the markers alone
C24_OutputAsIfEscapedAfter ==
    (OneBullet /\ rkind = "pdf") => BulletOutput = EscapeSpans(BulletText)

(***************************************************************************)
(* Claims about the sequence of compile_to_pdf.                            *)
(***************************************************************************)
\* compile_to_pdf has ended after i invocations or more
EndedAfter(i) == cpc = "done" /\ Len(clog) >= i

\* every invocation made returned: none ended by an exception
AllReturned == \A i \in 1..Len(clog) : ~RunRaised(clog[i])

\* the output file is in the directory after the last invocation made
OutputExists == PdfFile \in WroteUpTo(clog, Len(clog))

C25_WitnessTimeout ==
    /\ EndedAfter(Passes) /\ clog[Passes].end = "timeout" /\ PdfFile \in clog[1].wrote
    /\ ~cresult.pdf.some

(***************************************************************************)
(* Concurrent calls.  routers/parse.py and routers/render.py hold one      *)
(* ResumeParser and one LaTeXRenderer for the process; every caller works  *)
(* on the locals of its own call, on the shared instances and on the       *)
(* directories of the file system.  A caller's steps interleave freely     *)
(* with the other caller's.  What the compiler does with a caller's markup *)
(* comes with the call (env), so that a call alone has one result.         *)
(***************************************************************************)
\* the documents and resumes the concurrent callers send
ConcDocs == { input \in ReadableInputs : \E d \in BlankLineDocs : input.blocks = BlocksOf(d) }

ConcResumes ==
    { r \in HeaderResumes :
        ~r.metadata.phone.some /\ ~r.metadata.linkedin.some /\ ~r.metadata.location.some }

\* how the compiler behaves for a call: both passes succeed, both exit with an
\* error status and no output, or the second pass hangs
CompilerEnvs == {"ok", "fails", "hangs"}

\* how pass n of subprocess.run ends under the behaviour
PassEnd(env, n) ==
    CASE env = "ok" -> "exit0"
      [] env = "fails" -> "nonzero"
      [] OTHER -> IF n = 1 THEN "exit0" ELSE "timeout"

\* the PDF pdflatex makes of a markup file
PdfOf(markup) == <<"%PDF">> \o markup

\* one name, taken whatever directories exist
MkdtempFixed(fsys) == {"tmpa"}

\* tempfile.mkdtemp: a name no directory has yet
Mkdtemp(fsys) == {d \in DirNames : ~fsys[d].exists}

\* the directory is created, empty
CreateDir(fsys, d) == [fsys EXCEPT ![d] = [NoDir EXCEPT !.exists = TRUE]]

\* tex_path.write_text(latex_source)
WriteTex(fsys, d, markup) == [fsys EXCEPT ![d].tex = Some(markup)]

\* pdflatex -output-directory d d/resume.tex: reads the markup file of d and,
\* when it exits with status 0, leaves resume.pdf in d
RunPass(fsys, d, end) ==
    IF fsys[d].exists /\ fsys[d].tex.some /\ end = "exit0"
    THEN [fsys EXCEPT ![d].pdf = Some(PdfOf(fsys[d].tex.v))]
    ELSE fsys

\* if pdf_path.exists(): return pdf_path.read_bytes() else: return None
ReadOutput(fsys, d) == IF fsys[d].exists THEN fsys[d].pdf ELSE None

\* TemporaryDirectory.__exit__: the directory and its files are removed
RemoveDir(fsys, d) == [fsys EXCEPT ![d] = NoDir]

\* compile_to_pdf run with no other call around
AloneCompile(markup, env) ==
    IF PassEnd(env, 1) = "timeout" \/ PassEnd(env, 2) = "timeout" THEN None
    ELSE ReadOutput(
             RunPass(RunPass(WriteTex(CreateDir([d \in DirNames |-> NoDir], "tmpa"),
                                      "tmpa", markup),
                             "tmpa", PassEnd(env, 1)),
                     "tmpa", PassEnd(env, 2)),
             "tmpa")

\* a request arrives at an endpoint
ConcCall ==
    /\ \E c \in Callers :
        /\ calls[c].pc = "idle"
        /\ \/ \E doc \in ConcDocs :
                calls' = [calls EXCEPT ![c] =
                             [NoCall EXCEPT !.pc = "started", !.kind = "parse", !.doc = doc]]
           \/ \E resume \in ConcResumes :
                calls' = [calls EXCEPT ![c] =
                             [NoCall EXCEPT !.pc = "started", !.kind = "render",
                                            !.resume = resume]]
           \/ \E resume \in ConcResumes, env \in CompilerEnvs :
                calls' = [calls EXCEPT ![c] =
                             [NoCall EXCEPT !.pc = "started", !.kind = "compile",
                                            !.resume = resume, !.env = env]]
    /\ UNCHANGED <<fs, shared>>
    /\ UNCHANGED <<analysisVars, parserVars, renderVars, compileVars, boundaryVars>>

\* parser.parse_docx on the shared parser
ConcParse ==
    /\ \E c \in Callers :
        /\ calls[c].pc = "started" /\ calls[c].kind = "parse"
        /\ calls' = [calls EXCEPT ![c].parsed = ParseDocx(calls[c].doc, 1), ![c].pc = "done"]
    /\ UNCHANGED <<fs, shared>>
    /\ UNCHANGED <<analysisVars, parserVars, renderVars, compileVars, boundaryVars>>

\* renderer.render on the shared renderer: the whole of a render call, the first
\* statement of render_and_compile
ConcRender ==
    /\ \E c \in Callers :
        /\ calls[c].pc = "started" /\ calls[c].kind \in {"render", "compile"}
        /\ calls' = [calls EXCEPT ![c].markup = Render(calls[c].resume),
                                  ![c].pc = IF calls[c].kind = "render" THEN "done"
                                            ELSE "rendered"]
    /\ UNCHANGED <<fs, shared>>
    /\ UNCHANGED <<analysisVars, parserVars, renderVars, compileVars, boundaryVars>>

\* with tempfile.TemporaryDirectory() as tmpdir
ConcMkdtemp ==
    /\ \E c \in Callers :
        /\ calls[c].pc = "rendered"
        /\ \E d \in Mkdtemp(fs) :
            /\ fs' = CreateDir(fs, d)
            /\ calls' = [calls EXCEPT ![c].dir = d, ![c].pc = "created"]
    /\ UNCHANGED shared
    /\ UNCHANGED <<analysisVars, parserVars, renderVars, compileVars, boundaryVars>>

\* tex_path.write_text: it raises when the directory is not there
ConcWriteTex ==
    /\ \E c \in Callers :
        /\ calls[c].pc = "created"
        /\ IF fs[calls[c].dir].exists
           THEN /\ fs' = WriteTex(fs, calls[c].dir, calls[c].markup)
                /\ calls' = [calls EXCEPT ![c].pc = "running"]
           ELSE /\ fs' = fs
                /\ calls' = [calls EXCEPT ![c].raised = TRUE, ![c].pc = "done"]
    /\ UNCHANGED shared
    /\ UNCHANGED <<analysisVars, parserVars, renderVars, compileVars, boundaryVars>>

\* one subprocess.run of the loop
ConcCompilerRun ==
    /\ \E c \in Callers :
        /\ calls[c].pc = "running" /\ calls[c].runs < Passes
        /\ fs' = RunPass(fs, calls[c].dir, PassEnd(calls[c].env, calls[c].runs + 1))
        /\ calls' = [calls EXCEPT
                        ![c].runs = @ + 1,
                        ![c].pc = IF PassEnd(calls[c].env, calls[c].runs + 1) = "timeout"
                                  THEN "leaving"
                                  ELSE IF calls[c].runs + 1 = Passes THEN "checking"
                                  ELSE "running"]
    /\ UNCHANGED shared
    /\ UNCHANGED <<analysisVars, parserVars, renderVars, compileVars, boundaryVars>>

\* after the loop: the output file is looked for and read
ConcCheckOutput ==
    /\ \E c \in Callers :
        /\ calls[c].pc = "checking"
        /\ calls' = [calls EXCEPT ![c].pdf = ReadOutput(fs, calls[c].dir), ![c].pc = "leaving"]
    /\ UNCHANGED <<fs, shared>>
    /\ UNCHANGED <<analysisVars, parserVars, renderVars, compileVars, boundaryVars>>

\* the return leaves the with block
ConcExitTmpDir ==
    /\ \E c \in Callers :
        /\ calls[c].pc = "leaving"
        /\ fs' = RemoveDir(fs, calls[c].dir)
        /\ calls' = [calls EXCEPT ![c].pc = "done"]
    /\ UNCHANGED shared
    /\ UNCHANGED <<analysisVars, parserVars, renderVars, compileVars, boundaryVars>>

\* the caller has its answer
ConcDone ==
    /\ \E c \in Callers :
        /\ calls[c].pc = "done"
        /\ calls' = [calls EXCEPT ![c] = NoCall]
    /\ UNCHANGED <<fs, shared>>
    /\ UNCHANGED <<analysisVars, parserVars, renderVars, compileVars, boundaryVars>>

ConcInit ==
    client = FALSE /\ AnalysisIdle /\ ParserIdle /\ RenderIdle /\ CompileIdle /\ BoundaryIdle /\ ConcIdle

ConcNext ==
    \/ ConcCall \/ ConcParse \/ ConcRender \/ ConcMkdtemp \/ ConcWriteTex
    \/ ConcCompilerRun \/ ConcCheckOutput \/ ConcExitTmpDir \/ ConcDone

SpecConcurrent == ConcInit /\ [][ConcNext]_vars

(***************************************************************************)
(* Claims about concurrent calls.                                          *)
(***************************************************************************)
\* the caller is between the creation and the removal of its directory
HoldsDir(c) == calls[c].pc \in {"created", "running", "checking", "leaving"}

\* C26: concurrent calls do not interfere: in every interleaving of the
\* extraction, rendering and compile calls of two callers, the result of a
\* call is the result the call has when it runs alone; two compile calls in
\* progress have distinct temporary directories, a caller's directory and
\* markup file stay in place until the caller removes them, the output file
\* in it is made of the caller's own markup, and the shared instances are
\* left as they were.
C26_NoInterference ==
    /\ shared = SharedInstances
    /\ \A c \in Callers :
        /\ calls[c].pc = "done" =>
            /\ ~calls[c].raised
            /\ calls[c].kind = "parse" => calls[c].parsed = ParseDocx(calls[c].doc, 1)
            /\ calls[c].kind = "render" => calls[c].markup = Render(calls[c].resume)
            /\ calls[c].kind = "compile" =>
                calls[c].pdf = AloneCompile(Render(calls[c].resume), calls[c].env)
        /\ HoldsDir(c) =>
            /\ fs[calls[c].dir].exists
            /\ calls[c].pc # "created" => fs[calls[c].dir].tex = Some(calls[c].markup)
            /\ fs[calls[c].dir].pdf.some => fs[calls[c].dir].pdf.v = PdfOf(calls[c].markup)
            /\ \A o \in Callers \ {c} : HoldsDir(o) => calls[o].dir # calls[c].dir

\* a compile call returned its PDF while the other caller's compile call, for
\* another resume, was between its two passes
C26_Witness ==
    /\ calls["c1"].pc = "done" /\ calls["c1"].kind = "compile" /\ calls["c1"].pdf.some
    /\ calls["c2"].pc = "running" /\ calls["c2"].runs = 1
    /\ calls["c2"].resume # calls["c1"].resume

(***************************************************************************)
(* Further claims about the skills parser.                                 *)
(***************************************************************************)
\* the document is one skills section
SkillsDocument ==
    /\ Parsed
    /\ Len(InputLines) >= 2
    /\ MatchedType(InputLines[1]) = "skills"
    /\ \A i \in 2..Len(InputLines) : ~IsHeader(InputLines[i])

HasColon(line) == \E k \in 1..Len(line) : line[k] = ":"

\* the lines of the section without a colon, in input order
RECURSIVE ColonlessLines(_)
ColonlessLines(lines) ==
    IF lines = <<>> THEN <<>>
    ELSE (IF HasColon(Head(lines)) THEN <<>> ELSE <<Head(lines)>>)
         \o ColonlessLines(Tail(lines))

\* the categories of the extracted resume, over all its skills items
ExtractedCategories ==
    { presult.resume.sections[i].items[j].content.categories[k] :
        <<i, j, k>> \in
            { t \in (1..Len(presult.resume.sections)) \X (1..1) \X (1..3) :
                /\ t[2] <= Len(presult.resume.sections[t[1]].items)
                /\ t[3] <= Len(presult.resume.sections[t[1]].items[t[2]].content.categories) } }

\* the token is a skill of a category of that name
InCategory(token, name) ==
    \E cat \in ExtractedCategories :
        cat.name = name /\ \E k \in 1..Len(cat.skills) : cat.skills[k] = token

\* C27: every skills-section line without a colon contributes its tokens to a
\* "Technical Skills" category of the output, also when the same section has
\* colon lines that produce named categories: no token is absent.
C27_ColonlessTokensKept ==
    SkillsDocument =>
        \A k \in 1..Len(TokensOfLines(ColonlessLines(Tail(InputLines)))) :
            InCategory(TokensOfLines(ColonlessLines(Tail(InputLines)))[k],
                       <<"Technical Skills">>)

\* what the code does: "Technical Skills" is built only when no colon line gave
\* a category, and then it holds every token of the colon-less lines
C27_TechnicalSkillsOnlyAsFallback ==
    SkillsDocument =>
        \/ ExtractedCategories = {}
        \/ ExtractedCategories =
             {[name |-> <<"Technical Skills">>,
               skills |-> TokensOfLines(ColonlessLines(Tail(InputLines)))]}
        \/ \A cat \in ExtractedCategories : cat.name # <<"Technical Skills">>

(***************************************************************************)
(* Claims about the entries and bullets of the experience and projects     *)
(* parsers.                                                                *)
(***************************************************************************)
\* the document is one section of the kind, its header first
OneSectionOf(kind) ==
    /\ Parsed
    /\ Len(InputLines) >= 2
    /\ MatchedType(InputLines[1]) = kind
    /\ \A i \in 2..Len(InputLines) : ~IsHeader(InputLines[i])
    /\ Len(presult.resume.sections) = 1

\* the lines of an experience section that open an entry, in input order
RECURSIVE EntryLines(_)
EntryLines(lines) ==
    IF lines = <<>> THEN <<>>
    ELSE (IF ~IsExperienceBullet(Head(lines))
             /\ (FindRange(Head(lines)).found \/ LooksLikeJobTitle(Head(lines)))
          THEN <<Head(lines)>> ELSE <<>>)
         \o EntryLines(Tail(lines))

\* the line carries a date range that ends in present or current
EndsInPresent(line) ==
    FindRange(line).found /\ line[FindRange(line).to] \in PresentSymbols

\* the j-th experience item of the one section
ExperienceEntry(j) == presult.resume.sections[1].items[j].content

\* C28: in every extracted Experience item end_date is absent if and only if
\* the date range of the entry's line ends in present or current, and it is
\* never the empty string; an entry whose line has no date range is not
\* represented as ongoing.
C28_AbsentIffPresent ==
    OneSectionOf("experience") =>
        /\ Len(presult.resume.sections[1].items) = Len(EntryLines(Tail(InputLines)))
        /\ \A j \in 1..Len(presult.resume.sections[1].items) :
            /\ ~ExperienceEntry(j).end_date.some
                   <=> EndsInPresent(EntryLines(Tail(InputLines))[j])
            /\ ExperienceEntry(j).end_date # Some(<<>>)

\* what the code does: end_date is absent also when the line has no date range
C28_AbsentAlsoWithoutRange ==
    OneSectionOf("experience") =>
        /\ Len(presult.resume.sections[1].items) = Len(EntryLines(Tail(InputLines)))
        /\ \A j \in 1..Len(presult.resume.sections[1].items) :
            /\ ~ExperienceEntry(j).end_date.some
                   <=> \/ EndsInPresent(EntryLines(Tail(InputLines))[j])
                       \/ ~FindRange(EntryLines(Tail(InputLines))[j]).found
            /\ ExperienceEntry(j).end_date # Some(<<>>)

\* the line without its leading glyph or, when numbered is set, without its
\* leading numbered marker, and without the blanks after it
LeadingMarkerRemoved(line, glyphs, numbered) ==
    IF Head(line) \in glyphs THEN LStrip(Tail(line))
    ELSE IF numbered /\ StartsNumbered(line)
    THEN LStrip(SubSeq(line, DigitRun(line) + 2, Len(line)))
    ELSE line

\* the line is a bullet line of the section
IsBulletLine(line, glyphs, numbered) ==
    Head(line) \in glyphs \/ (numbered /\ StartsNumbered(line))

\* the line opens an entry of the section
OpensEntry(line, numbered) ==
    IF numbered THEN FindRange(line).found \/ LooksLikeJobTitle(line) ELSE TRUE

\* the bullet texts the claim expects, in input order: open says that an entry
\* came before
RECURSIVE ExpectedBullets(_, _, _, _)
ExpectedBullets(lines, glyphs, numbered, open) ==
    IF lines = <<>> THEN <<>>
    ELSE IF IsBulletLine(Head(lines), glyphs, numbered)
    THEN (IF open /\ LeadingMarkerRemoved(Head(lines), glyphs, numbered) # <<>>
          THEN <<LeadingMarkerRemoved(Head(lines), glyphs, numbered)>> ELSE <<>>)
         \o ExpectedBullets(Tail(lines), glyphs, numbered, open)
    ELSE ExpectedBullets(Tail(lines), glyphs, numbered,
                         open \/ OpensEntry(Head(lines), numbered))

\* the texts of the bullets of the items, in the order of the output
RECURSIVE ExtractedBulletTexts(_)
ExtractedBulletTexts(items) ==
    IF items = <<>> THEN <<>>
    ELSE [k \in 1..Len(Head(items).content.bullets) |-> Head(items).content.bullets[k].text]
         \o ExtractedBulletTexts(Tail(items))

\* C29: in the Experience and Projects parsers the text of every extracted
\* bullet is the source line with only its leading bullet glyph or leading
\* numbered marker, and the whitespace after it, removed: nothing elsewhere
\* in the line, such as digits followed by a period, is removed or altered.
C29_OnlyLeadingMarkerRemoved ==
    /\ OneSectionOf("experience") =>
        ExtractedBulletTexts(presult.resume.sections[1].items)
            = ExpectedBullets(Tail(InputLines), ExperienceGlyphs, TRUE, FALSE)
    /\ OneSectionOf("projects") =>
        ExtractedBulletTexts(presult.resume.sections[1].items)
            = ExpectedBullets(Tail(InputLines), ProjectGlyphs, FALSE, FALSE)

\* what the code does guarantee: the bullets of the Projects parser
C29_ProjectBulletsIntact ==
    OneSectionOf("projects") =>
        ExtractedBulletTexts(presult.resume.sections[1].items)
            = ExpectedBullets(Tail(InputLines), ProjectGlyphs, FALSE, FALSE)

\* a project bullet that keeps the digits and the period inside it
C29_ProjectWitness ==
    /\ OneSectionOf("projects")
    /\ <<"a", " ", "1", ".", " ", "b">>
           \in {ExtractedBulletTexts(presult.resume.sections[1].items)[k] :
                  k \in 1..Len(ExtractedBulletTexts(presult.resume.sections[1].items))}

\* three entries, the first with a closed date range
C28_EntriesReached ==
    /\ OneSectionOf("experience") /\ Len(presult.resume.sections[1].items) = 3
    /\ ExperienceEntry(1).end_date = Some(<<"2021">>)

(***************************************************************************)
(* Claims about the ids a suggestion refers to.                            *)
(***************************************************************************)
\* the id string of the node the model numbers n
IdString(n) == StrN("id", n)

\* the ids of the sections and items of the Resume handed to analyze_resume
InputIds ==
    {IdString(ainput.sections[i].id) : i \in 1..Len(ainput.sections)}
    \cup UNION { {IdString(ainput.sections[i].items[j].id) :
                     j \in 1..Len(ainput.sections[i].items)} :
                 i \in 1..Len(ainput.sections) }

\* C30: every section_id of a suggestion returned by analyze_resume that is
\* not null is the id of a node of the input Resume, for every oracle
\* response.
C30_IdsReferToInput ==
    AnalyzeReturned =>
        \A i \in 1..Len(aresult.suggestions) :
            \/ aresult.suggestions[i].section_id.t = "null"
            \/ aresult.suggestions[i].section_id \in InputIds

\* what the code does guarantee: the id is null or the string the oracle sent
C30_IdsAsTheOracleSent ==
    AnalyzeReturned =>
        \A i \in 1..Len(aresult.suggestions) :
            \/ aresult.suggestions[i].section_id.t = "null"
            \/ /\ aresult.suggestions[i].section_id.t = "str"
               /\ \E k \in 1..Len(ItemsOf(areply.body.suggestions)) :
                    ItemsOf(areply.body.suggestions)[k].section_id
                        = aresult.suggestions[i].section_id

\* a returned suggestion that refers to a section of the input Resume
C30_ValidIdReached ==
    /\ AnalyzeReturned
    /\ \E i \in 1..Len(aresult.suggestions) : aresult.suggestions[i].section_id \in InputIds

====
